---- MODULE Spec2Model ----
(***************************************************************************)
(* QingYuan search aggregator: the search orchestration of                 *)
(* src/web_search.py (UnifiedSearch and the four per-category searchers).  *)
(*                                                                         *)
(* Text is a sequence of code points.  A code point is a one-character     *)
(* string for ASCII and a token "uXXXX" for a non-ASCII code point.        *)
(***************************************************************************)
EXTENDS Integers, Sequences, FiniteSets, TLC

(***************************************************************************)
(* Python str primitives                                                   *)
(***************************************************************************)

\* a literal as a sequence of code points
T(s) == [i \in 1..Len(s) |-> SubSeq(s, i, i)]

\* a local variable: Op with its parameter bound to v, which is written once
\* however often Op reads it
Let(v, Op(_)) == Op(v)

UpperAlpha == T("ABCDEFGHIJKLMNOPQRSTUVWXYZ")
LowerAlpha == T("abcdefghijklmnopqrstuvwxyz")

\* the lower-case letter of every upper-case letter
LowerOf == [c \in {UpperAlpha[i] : i \in 1..Len(UpperAlpha)} |->
              LowerAlpha[CHOOSE i \in 1..Len(UpperAlpha) : UpperAlpha[i] = c]]

LowerChar(c) == IF c \in DOMAIN LowerOf THEN LowerOf[c] ELSE c

\* str.lower()
Lower(s) == [i \in 1..Len(s) |-> LowerChar(s[i])]

WhiteSpace == {" ", "\t", "\n"}

RECURSIVE LStrip(_)
LStrip(s) == IF s # <<>> /\ Head(s) \in WhiteSpace THEN LStrip(Tail(s)) ELSE s

RECURSIVE RStrip(_)
RStrip(s) ==
  IF s # <<>> /\ s[Len(s)] \in WhiteSpace THEN RStrip(SubSeq(s, 1, Len(s) - 1)) ELSE s

\* str.strip()
Strip(s) == RStrip(LStrip(s))

\* set(s)
Chars(s) == {s[i] : i \in 1..Len(s)}


\* s.startswith(p)
StartsWith(s, p) == Len(p) <= Len(s) /\ SubSeq(s, 1, Len(p)) = p

\* s.endswith(p)
EndsWith(s, p) == Len(p) <= Len(s) /\ SubSeq(s, Len(s) - Len(p) + 1, Len(s)) = p

\* the first position from i on (1-based) where q occurs in s; 0 when there is none
RECURSIVE FindFrom(_, _, _)
FindFrom(s, q, i) ==
  IF i + Len(q) - 1 > Len(s) THEN 0
  ELSE IF SubSeq(s, i, i + Len(q) - 1) = q THEN i
  ELSE FindFrom(s, q, i + 1)

\* s.find(q), 1-based; 0 when q does not occur
Find(s, q) == FindFrom(s, q, 1)

\* q in t
Contains(t, q) == FindFrom(t, q, 1) > 0

\* re.sub('[from]', to, s) with to a single code point
RECURSIVE SubChars(_, _, _)
SubChars(s, from, to) ==
  IF s = <<>> THEN <<>>
  ELSE (IF Head(s) \in from THEN <<to>> ELSE <<Head(s)>>) \o SubChars(Tail(s), from, to)

\* re.sub('[drop]', '', s) and s.replace(c, '')
RECURSIVE DropChars(_, _)
DropChars(s, drop) ==
  IF s = <<>> THEN <<>>
  ELSE (IF Head(s) \in drop THEN <<>> ELSE <<Head(s)>>) \o DropChars(Tail(s), drop)

\* s.split(sep) for a single code point sep
RECURSIVE Split(_, _)
Split(s, sep) ==
  LET p == Find(s, <<sep>>) IN
    IF p = 0 THEN <<s>>
    ELSE <<SubSeq(s, 1, p - 1)>> \o Split(SubSeq(s, p + 1, Len(s)), sep)

(***************************************************************************)
(* urllib.parse                                                            *)
(***************************************************************************)

Digits == T("0123456789")
SchemeChars == Chars(UpperAlpha) \cup Chars(LowerAlpha) \cup Chars(Digits) \cup {"+", "-", "."}

\* first position (1-based) of a code point of cs in s, Len(s)+1 when none
RECURSIVE FirstOfFrom(_, _, _)
FirstOfFrom(s, cs, i) ==
  IF i > Len(s) \/ s[i] \in cs THEN i ELSE FirstOfFrom(s, cs, i + 1)

FirstOf(s, cs) == FirstOfFrom(s, cs, 1)

\* urllib.parse.urlparse(url): scheme, netloc, path, query, fragment
urlparse(url) ==
  Let(Find(url, <<":">>), LAMBDA c :
  Let(c > 1 /\ \A i \in 1..(c - 1) : url[i] \in SchemeChars, LAMBDA hasSch :
  Let(IF hasSch THEN SubSeq(url, c + 1, Len(url)) ELSE url, LAMBDA r1 :
  Let(StartsWith(r1, <<"/", "/">>), LAMBDA hasNet :
  Let(IF hasNet THEN SubSeq(r1, 3, Len(r1)) ELSE r1, LAMBDA r2 :
  Let(IF hasNet THEN FirstOf(r2, {"/", "?", "#"}) ELSE 1, LAMBDA e :
  Let(SubSeq(r2, e, Len(r2)), LAMBDA r3 :
  Let(Find(r3, <<"#">>), LAMBDA h :
  Let(IF h > 0 THEN SubSeq(r3, 1, h - 1) ELSE r3, LAMBDA r4 :
  Let(Find(r4, <<"?">>), LAMBDA q :
    [scheme   |-> IF hasSch THEN Lower(SubSeq(url, 1, c - 1)) ELSE <<>>,
     netloc   |-> IF hasNet THEN SubSeq(r2, 1, e - 1) ELSE <<>>,
     path     |-> IF q > 0 THEN SubSeq(r4, 1, q - 1) ELSE r4,
     query    |-> IF q > 0 THEN SubSeq(r4, q + 1, Len(r4)) ELSE <<>>,
     fragment |-> IF h > 0 THEN SubSeq(r3, h + 1, Len(r3)) ELSE <<>>]))))))))))

HexDigits == T("0123456789abcdef")
HexVal(c) == (CHOOSE i \in 1..16 : HexDigits[i] = LowerChar(c)) - 1
IsHex(c) == \E i \in 1..16 : HexDigits[i] = LowerChar(c)

\* the printable ASCII code points 0x20..0x7e, in order
Ascii ==
  T(" !\"#$%&'()*+,-./0123456789:;<=>?@ABCDEFGHIJKLMNOPQRSTUVWXYZ[\\]^_")
    \o <<"u0060">> \o T("abcdefghijklmnopqrstuvwxyz{|}~")

\* urllib.parse.unquote(s); escapes outside printable ASCII are left as written
RECURSIVE unquote(_)
unquote(s) ==
  IF s = <<>> THEN <<>>
  ELSE IF /\ Head(s) = "%"
          /\ Len(s) >= 3
          /\ IsHex(s[2]) /\ IsHex(s[3])
          /\ 16 * HexVal(s[2]) + HexVal(s[3]) \in 32..126
         THEN <<Ascii[16 * HexVal(s[2]) + HexVal(s[3]) - 31]>> \o unquote(SubSeq(s, 4, Len(s)))
         ELSE <<Head(s)>> \o unquote(Tail(s))

\* the (name, value) pairs parse_qsl keeps: fields with '=' and a non-blank value
QsPairs(qs) ==
  Let(SelectSeq(Split(qs, "&"),
                LAMBDA f : Let(Find(f, <<"=">>), LAMBDA p : p > 0 /\ p < Len(f))),
      LAMBDA kept :
        [i \in 1..Len(kept) |->
           Let(Find(kept[i], <<"=">>), LAMBDA p :
             <<unquote(SubChars(SubSeq(kept[i], 1, p - 1), {"+"}, " ")),
               unquote(SubChars(SubSeq(kept[i], p + 1, Len(kept[i])), {"+"}, " "))>>)])

RECURSIVE ValuesOf(_, _)
ValuesOf(pairs, name) ==
  IF pairs = <<>> THEN <<>>
  ELSE (IF Head(pairs)[1] = name THEN <<Head(pairs)[2]>> ELSE <<>>) \o ValuesOf(Tail(pairs), name)

\* urllib.parse.parse_qs(qs): name -> list of values
parse_qs(qs) ==
  Let(QsPairs(qs), LAMBDA pairs :
    [n \in {pairs[i][1] : i \in 1..Len(pairs)} |-> ValuesOf(pairs, n)])

\* dict.pop(k, None) for every k of ks
PopAll(d, ks) == [n \in (DOMAIN d) \ ks |-> d[n]]

(***************************************************************************)
(* RelevanceScorer (WebSearch) and Deduplicator (BaseSearch)               *)
(***************************************************************************)

\* WebSearch._normalize_text
_normalize_text(text) ==
  LET t1 == SubChars(text, {"uff0a", "*", "u00b7", "u2022"}, "*")
      t2 == SubChars(t1, {"uff1a", ":"}, ":")
      t3 == DropChars(t2, {"uff08", "uff09", "(", ")"})
      t4 == DropChars(t3, {"uff0c", ",", "u3002", "."})
  IN Strip(t4)

official_keywords ==
  << <<"u5b98", "u7f51">>, <<"u5b98", "u65b9", "u7f51", "u7ad9">>, T("official"),
     T("homepage"), T("home page"),
     <<"u6982", "u5ff5">>, <<"u4ecb", "u7ecd">>, T("introduction"), T("about"),
     <<"u4ec0", "u4e48", "u662f">>, T("what is"),
     <<"u5b9a", "u4e49">>, T("definition"), <<"u767e", "u79d1">>, T("wiki"),
     <<"u840c", "u5a18", "u767e", "u79d1">>, <<"u840c", "u5a18", "u767e", "u79d1">> >>

\* a score of the shared characters only, without the bonus for the whole query
\* and for the markers
SharedOnly(title, url, query) ==
  IF title = <<>> \/ query = <<>> THEN 1
  ELSE 1 + 50 * Cardinality(Chars(DropChars(_normalize_text(Lower(query)), {" "}))
                              \cap Chars(DropChars(_normalize_text(Lower(title)), {" "})))

\* WebSearch._calculate_relevance_score
_calculate_relevance_score(title, url, query) ==
  IF title = <<>> \/ query = <<>> THEN 1
  ELSE
    Let(Lower(title), LAMBDA title_lower :
    Let(_normalize_text(Lower(query)), LAMBDA normalized_query :
    Let(_normalize_text(title_lower), LAMBDA normalized_title :
    Let(Chars(DropChars(normalized_query, {" "})), LAMBDA query_chars :
    Let(Chars(DropChars(normalized_title, {" "})), LAMBDA title_chars :
    Let(Cardinality(query_chars \cap title_chars), LAMBDA match_count :
    Let(Lower(url), LAMBDA url_lower :
      1 + (IF match_count > 0 THEN match_count * 50 ELSE 0)
        + (IF Contains(normalized_title, normalized_query) THEN 1000 ELSE 0)
        + (IF \E k \in 1..Len(official_keywords) :
                 \/ Contains(title_lower, official_keywords[k])
                 \/ Contains(url_lower, official_keywords[k])
             THEN 20 ELSE 0))))))))

ignore_params ==
  {T("utm_source"), T("utm_medium"), T("utm_campaign"), T("ref"), T("source"), T("from")}

\* BaseSearch._are_urls_similar
_are_urls_similar(url1, url2) ==
  Let(urlparse(url1), LAMBDA p1 :
  Let(urlparse(url2), LAMBDA p2 :
    IF p1.netloc # p2.netloc \/ p1.path # p2.path THEN FALSE
    ELSE PopAll(parse_qs(p1.query), ignore_params) = PopAll(parse_qs(p2.query), ignore_params)))

\* BaseSearch._are_titles_similar: Jaccard similarity of the character sets > 0.8
_are_titles_similar(title1, title2) ==
  IF title1 = <<>> \/ title2 = <<>> THEN FALSE
  ELSE LET set1 == Chars(title1)
           set2 == Chars(title2)
           intersection == Cardinality(set1 \cap set2)
           union == Cardinality(set1 \cup set2)
       IN union > 0 /\ 10 * intersection > 8 * union

\* BaseSearch._smart_deduplication: the loop, with its three accumulators
RECURSIVE SmartDedupLoop(_, _, _, _)
SmartDedupLoop(results, dedup, seen_urls, seen_titles) ==
  IF results = <<>> THEN dedup
  ELSE
    Let(Head(results), LAMBDA item :
    Let(Strip(item.url), LAMBDA url :
    Let(_normalize_text(Lower(Strip(item.title))), LAMBDA title_normalized :
      IF \/ url = <<>>
         \/ url \in seen_urls
         \/ title_normalized \in seen_titles
         \/ \E seen_url \in seen_urls : _are_urls_similar(url, seen_url)
         \/ \E seen_title \in seen_titles : _are_titles_similar(title_normalized, seen_title)
        THEN SmartDedupLoop(Tail(results), dedup, seen_urls, seen_titles)
        ELSE SmartDedupLoop(Tail(results), Append(dedup, item),
                            seen_urls \cup {url}, seen_titles \cup {title_normalized}))))

\* no deduplication: the accumulated list as it is
KeepAll(results) == results

_smart_deduplication(results) == SmartDedupLoop(results, <<>>, {}, {})

\* the exact-key loop of ImageSearch.search, VideoSearch.search and
\* ResourceSearch.search: keep the first item of every non-empty key
RECURSIVE KeyDedupLoop(_, _, _, _)
KeyDedupLoop(results, dedup, seen, field) ==
  IF results = <<>> THEN dedup
  ELSE LET item == Head(results)
           key == item[field]
       IN IF key # <<>> /\ key \notin seen
            THEN KeyDedupLoop(Tail(results), Append(dedup, item), seen \cup {key}, field)
            ELSE KeyDedupLoop(Tail(results), dedup, seen, field)

\* list.sort(key=..., reverse=True) on (key, item) pairs: stable and descending;
\* one item is inserted behind every item whose key is not smaller
\* an unstable descending sort: the item goes in front of the items of equal key
RECURSIVE InsertBeforeEqual(_, _)
InsertBeforeEqual(sorted, pair) ==
  IF sorted = <<>> THEN <<pair>>
  ELSE IF Head(sorted).key > pair.key
         THEN <<Head(sorted)>> \o InsertBeforeEqual(Tail(sorted), pair)
         ELSE <<pair>> \o sorted

RECURSIVE InsertDesc(_, _)
InsertDesc(sorted, pair) ==
  IF sorted = <<>> THEN <<pair>>
  ELSE IF Head(sorted).key >= pair.key
         THEN <<Head(sorted)>> \o InsertDesc(Tail(sorted), pair)
         ELSE <<pair>> \o sorted

RECURSIVE SortDescLoop(_, _)
SortDescLoop(todo, sorted) ==
  IF todo = <<>> THEN sorted
  ELSE SortDescLoop(Tail(todo), InsertDesc(sorted, Head(todo)))

\* list sorted by keys[i], the key of list[i]
SortDesc(list, keys) ==
  Let(SortDescLoop([i \in 1..Len(list) |-> [key |-> keys[i], item |-> list[i]]], <<>>),
      LAMBDA sorted : [i \in 1..Len(sorted) |-> sorted[i].item])

\* str.count(q): non-overlapping occurrences, scanning left to right
RECURSIVE Count(_, _)
Count(s, q) ==
  Let(Find(s, q), LAMBDA p :
    IF q = <<>> \/ p = 0 THEN 0
    ELSE 1 + Count(SubSeq(s, p + Len(q), Len(s)), q))

\* get_priority_score of ResourceSearch.search
get_priority_score(item, query) ==
  Let(Lower(item.title), LAMBDA title :
  Let(Lower(query), LAMBDA query_lower :
  Let(_normalize_text(query_lower), LAMBDA normalized_query :
  Let(_normalize_text(title), LAMBDA normalized_title :
  Let(Chars(DropChars(normalized_query, {" "})), LAMBDA query_chars :
  Let(Chars(DropChars(normalized_title, {" "})), LAMBDA title_chars :
    Count(title, query_lower) * 10
    + (IF Contains(normalized_title, normalized_query) THEN 1000
       ELSE IF Cardinality(query_chars) > 0
              THEN (500 * Cardinality(query_chars \cap title_chars)) \div Cardinality(query_chars)
              ELSE 1)))))))

(***************************************************************************)
(* LinkResolver (BaseSearch) and the extraction of WebSearch               *)
(***************************************************************************)

INVALID_LINK_PATTERNS ==
  <<T("#"), T("javascript:void(0);"), T("javascript:void(0)"), T("javascript:"),
    T("mailto:"), T("tel:"), T("data:"), T("about:"), T("chrome:"), T("file:")>>

\* BaseSearch._is_invalid_link
_is_invalid_link(href) ==
  IF href = <<>> THEN TRUE
  ELSE Let(Strip(Lower(href)), LAMBDA href_lower :
         \/ \E k \in 1..Len(INVALID_LINK_PATTERNS) :
               StartsWith(href_lower, INVALID_LINK_PATTERNS[k])
         \/ href_lower \in {T("#"), T("javascript:void(0);"), T("javascript:void(0)")}
         \/ (StartsWith(href, <<"/">>) /\ Len(href) = 1))

\* the base64 alphabet after urlsafe translation: '-' and '+' are 62, '_' and '/' are 63
B64Alphabet == UpperAlpha \o LowerAlpha \o Digits
B64Val(c) ==
  IF c \in {"-", "+"} THEN 62
  ELSE IF c \in {"_", "/"} THEN 63
  ELSE (CHOOSE i \in 1..Len(B64Alphabet) : B64Alphabet[i] = c) - 1
IsB64(c) == c \in {"-", "+", "_", "/"} \/ \E i \in 1..Len(B64Alphabet) : B64Alphabet[i] = c

\* the bytes of a sequence of 6-bit values (a trailing group of 2 or 3 values gives 1 or 2 bytes)
RECURSIVE B64Bytes(_)
B64Bytes(vals) ==
  IF Len(vals) < 2 THEN <<>>
  ELSE LET b1 == (vals[1] * 4 + vals[2] \div 16) % 256
       IN IF Len(vals) = 2 THEN <<b1>>
          ELSE LET b2 == ((vals[2] % 16) * 16 + vals[3] \div 4) % 256
               IN IF Len(vals) = 3 THEN <<b1, b2>>
                  ELSE <<b1, b2, ((vals[3] % 4) * 64 + vals[4]) % 256>>
                         \o B64Bytes(SubSeq(vals, 5, Len(vals)))

\* binascii.a2b_base64, non-strict: characters outside the alphabet are skipped,
\* enough '=' after a partial group ends the data; [ok |-> FALSE] is binascii.Error
RECURSIVE B64Loop(_, _, _)
B64Loop(s, vals, pads) ==
  IF s = <<>>
    THEN IF Len(vals) % 4 = 0 THEN [ok |-> TRUE, bytes |-> B64Bytes(vals)]
         ELSE [ok |-> FALSE, bytes |-> <<>>]
  ELSE IF Head(s) = "="
    THEN IF Len(vals) % 4 >= 2 /\ pads + 1 >= 4 - (Len(vals) % 4)
           THEN [ok |-> TRUE, bytes |-> B64Bytes(vals)]
           ELSE B64Loop(Tail(s), vals, pads + 1)
  ELSE IF IsB64(Head(s))
    THEN B64Loop(Tail(s), Append(vals, B64Val(Head(s))), 0)
  ELSE B64Loop(Tail(s), vals, pads)

\* base64.urlsafe_b64decode(s).decode('utf-8') for printable-ASCII payloads;
\* any other byte is reported as a decoding failure
b64decode_utf8(s) ==
  Let(B64Loop(s, <<>>, 0), LAMBDA r :
    IF r.ok /\ \A i \in 1..Len(r.bytes) : r.bytes[i] \in 32..126
      THEN [ok |-> TRUE, text |-> [i \in 1..Len(r.bytes) |-> Ascii[r.bytes[i] - 31]]]
      ELSE [ok |-> FALSE, text |-> <<>>])

\* _unwrap_bing_url without the removal of the a1 prefix
KeepPrefix(bing_url) ==
  Let(urlparse(bing_url), LAMBDA u :
  Let(parse_qs(u.query), LAMBDA qs :
    IF ~Contains(u.netloc, T("bing.com")) THEN bing_url
    ELSE IF u.query = <<>> \/ <<"u">> \notin DOMAIN qs THEN bing_url
    ELSE
      Let(b64decode_utf8(qs[<<"u">>][1] \o T("==")), LAMBDA dec :
        IF dec.ok /\ StartsWith(dec.text, T("http")) THEN dec.text ELSE bing_url)))

\* BaseSearch._unwrap_bing_url
_unwrap_bing_url(bing_url) ==
  Let(urlparse(bing_url), LAMBDA u :
  Let(parse_qs(u.query), LAMBDA qs :
    IF ~Contains(u.netloc, T("bing.com")) THEN bing_url
    ELSE IF u.query = <<>> \/ <<"u">> \notin DOMAIN qs THEN bing_url
    ELSE
      Let(qs[<<"u">>][1], LAMBDA enc0 :
      Let(IF StartsWith(enc0, T("a1")) THEN SubSeq(enc0, 3, Len(enc0)) ELSE enc0, LAMBDA enc :
      Let(b64decode_utf8(enc \o T("==")), LAMBDA dec :
        IF dec.ok /\ StartsWith(dec.text, T("http")) THEN dec.text ELSE bing_url)))))

\* None of Optional[str]: a value that is no text
None == <<"None">>

\* BaseSearch._normalize_url
_normalize_url(href) ==
  IF href = <<>> THEN None
  ELSE IF _is_invalid_link(href) THEN None
  ELSE
    Let(IF Contains(href, T("bing.com")) THEN _unwrap_bing_url(href) ELSE href, LAMBDA h1 :
    Let(urlparse(h1), LAMBDA pu :
    Let(parse_qs(pu.query), LAMBDA qs :
    Let(IF <<"u">> \in DOMAIN qs THEN qs[<<"u">>]
        ELSE IF <<"r">> \in DOMAIN qs THEN qs[<<"r">>] ELSE <<>>, LAMBDA u :
    Let(IF u # <<>> THEN unquote(u[1]) ELSE <<>>, LAMBDA target :
    Let(IF /\ Contains(pu.netloc, T("bing.com"))
           /\ (Contains(pu.path, T("/ck/a")) \/ Contains(pu.path, T("redirect")))
           /\ u # <<>>
           /\ StartsWith(target, T("http"))
          THEN target ELSE h1, LAMBDA h2 :
      IF StartsWith(h2, T("//")) THEN T("https:") \o h2
      ELSE IF StartsWith(h2, T("/")) THEN T("https://www.bing.com") \o h2
      ELSE h2))))))

BING_INTERNAL_PATHS ==
  <<T("/search"), T("/images/"), T("/videos/"), T("/academic/"), T("/maps/"),
    T("/travel/"), T("/dict/")>>

\* WebSearch._is_bing_internal
_is_bing_internal(href) ==
  Let(urlparse(href), LAMBDA pu :
    /\ Contains(pu.netloc, T("bing.com"))
    /\ \/ (Contains(pu.path, T("images/search")) /\ Contains(pu.query, T("view=detailV2")))
       \/ \E k \in 1..Len(BING_INTERNAL_PATHS) : StartsWith(pu.path, BING_INTERNAL_PATHS[k]))

\* BaseSearch._is_blacklisted
_is_blacklisted(blacklist, url) ==
  IF ~blacklist.enabled THEN FALSE
  ELSE Let(Lower(urlparse(url).netloc), LAMBDA host :
         \E k \in 1..Len(blacklist.domains) : Contains(host, blacklist.domains[k]))

\* BaseSearch._filename_from_url: re.search(r"/([^/?#]+)(?:\?|#|$)", url), else url
_filename_from_url(url) ==
  LET run(i)  == FirstOf(SubSeq(url, i + 1, Len(url)), {"/", "?", "#"}) - 1
      hit(i)  == /\ url[i] = "/"
                 /\ run(i) >= 1
                 /\ (i + run(i) = Len(url) \/ url[i + run(i) + 1] \in {"?", "#"})
  IN IF \E i \in 1..Len(url) : hit(i)
       THEN LET i == CHOOSE k \in 1..Len(url) : hit(k) /\ \A j \in 1..(k - 1) : ~hit(j)
            IN SubSeq(url, i + 1, i + run(i))
       ELSE url

\* s.split(sep)[-1]
AfterLast(s, sep) ==
  IF ~Contains(s, sep) THEN s
  ELSE LET i == CHOOSE k \in 0..(Len(s) - Len(sep)) :
                  /\ SubSeq(s, k + 1, k + Len(sep)) = sep
                  /\ \A j \in (k + 1)..(Len(s) - Len(sep)) : SubSeq(s, j + 1, j + Len(sep)) # sep
       IN SubSeq(s, i + Len(sep) + 1, Len(s))

\* s.split(sep)[0]
BeforeFirst(s, sep) == IF Contains(s, sep) THEN SubSeq(s, 1, Find(s, sep) - 1) ELSE s

prefixes_to_remove ==
  << <<"u9996", "u9875">>, <<"u4e3b", "u9875">>, <<"u7f51", "u7ad9", "u9996", "u9875">>,
     T("Home"), T("Index"),
     <<"u641c", "u7d22">>, T("Search"), <<"u7ed3", "u679c">>, T("Results"),
     <<"u767b", "u5f55">>, T("Login"), <<"u6ce8", "u518c">>, T("Register"),
     <<"u5173", "u4e8e">>, T("About"), <<"u5e2e", "u52a9">>, T("Help") >>

RECURSIVE RemovePrefixes(_, _)
RemovePrefixes(title, prefixes) ==
  IF prefixes = <<>> THEN title
  ELSE IF StartsWith(title, Head(prefixes))
         THEN RemovePrefixes(Strip(SubSeq(title, Len(Head(prefixes)) + 1, Len(title))), Tail(prefixes))
         ELSE RemovePrefixes(title, Tail(prefixes))

\* the longest title _clean_title returns untruncated
TitleLimit == 100

\* BaseSearch._clean_title
_clean_title(title, href) ==
  IF title = <<>> THEN <<>>
  ELSE
    Let(Strip(title), LAMBDA t0 :
    Let(IF Contains(t0, <<" ", "u203a", " ">>)
          THEN Strip(AfterLast(t0, <<" ", "u203a", " ">>)) ELSE t0, LAMBDA t1 :
    Let(IF Contains(t1, T("http")) THEN Strip(BeforeFirst(t1, T("http"))) ELSE t1, LAMBDA t2 :
    Let(IF \E e \in {T(".com"), T(".cn"), T(".net"), T(".org")} : EndsWith(t2, e)
          THEN _filename_from_url(href) ELSE t2, LAMBDA t3 :
    Let(RemovePrefixes(t3, prefixes_to_remove), LAMBDA t4 :
      IF Len(t4) > TitleLimit THEN SubSeq(t4, 1, TitleLimit) \o T("...") ELSE t4)))))

\* WebSearch._is_relevant_content
_is_relevant_content(title, url, query) ==
  IF title = <<>> \/ query = <<>> THEN FALSE
  ELSE _calculate_relevance_score(title, url, query) > 0

\* a result record; "source" also holds the "engine" of an engine result and
\* score 0 stands for a missing "score" (item.get("score", 0))
Result(title, url, snippet, source, score) ==
  [title |-> title, url |-> url, snippet |-> snippet, source |-> source, score |-> score]

\* WebSearch._parse_search_results over the items the selectors found, each with
\* the href of its first link and the text of its heading
RECURSIVE _parse_search_results(_, _, _, _)
_parse_search_results(items, query, engine, blacklist) ==
  IF items = <<>> THEN <<>>
  ELSE
    Let(_normalize_url(Head(items).href), LAMBDA href :
    Let(_parse_search_results(Tail(items), query, engine, blacklist), LAMBDA rest :
      IF href = None THEN rest
      ELSE IF _is_bing_internal(href) \/ _is_blacklisted(blacklist, href) THEN rest
      ELSE Let(_clean_title(Strip(Head(items).text), href), LAMBDA title :
             IF title = <<>> THEN rest
             ELSE <<Result(title, href, <<>>, engine,
                           _calculate_relevance_score(title, href, query))>> \o rest)))

\* WebSearch._parse_web_site_results over the a[href] elements of a page
RECURSIVE _parse_web_site_results(_, _, _)
_parse_web_site_results(items, query, domain) ==
  IF items = <<>> THEN <<>>
  ELSE
    Let(Head(items), LAMBDA item :
    Let(Strip(item.text), LAMBDA title :
    Let(_parse_web_site_results(Tail(items), query, domain), LAMBDA rest :
    Let(IF StartsWith(item.href, T("/")) THEN T("https://") \o domain \o item.href
        ELSE item.href, LAMBDA href :
      IF item.href = <<>> \/ title = <<>> THEN rest
      ELSE IF ~StartsWith(item.href, T("/")) /\ ~StartsWith(item.href, T("http")) THEN rest
      ELSE IF _is_invalid_link(href) THEN rest
      ELSE IF ~_is_relevant_content(title, href, query) THEN rest
      ELSE <<Result(title, href, title, domain, 0)>> \o rest))))

(***************************************************************************)
(* Extraction of ResourceSearch, VideoSearch and ImageSearch               *)
(***************************************************************************)

irrelevant_keywords ==
  << <<"u767b", "u5f55">>, T("login"), <<"u6ce8", "u518c">>, T("register"),
     <<"u9996", "u9875">>, T("home"), <<"u5173", "u4e8e">>, T("about"),
     <<"u8054", "u7cfb", "u6211", "u4eec">>, T("contact"), <<"u5e2e", "u52a9">>, T("help"),
     <<"u9690", "u79c1">>, T("privacy"), <<"u6761", "u6b3e">>, T("terms"),
     <<"u5e7f", "u544a">>, T("ad"), <<"u63a8", "u5e7f">>, T("promotion"),
     <<"u62db", "u8058">>, T("job"), <<"u62db", "u8058", "u4fe1", "u606f">>,
     <<"u65b0", "u95fb">>, T("news"), <<"u516c", "u544a">>, T("notice"),
     <<"u66f4", "u65b0">>, T("update"), <<"u7ef4", "u62a4">>, T("maintenance") >>

\* ResourceSearch._super_loose_match
_super_loose_match(query, title) ==
  LET normalized_query == _normalize_text(Lower(query))
      normalized_title == _normalize_text(Lower(title))
      query_chars      == Chars(DropChars(normalized_query, {" "}))
      title_chars      == Chars(DropChars(normalized_title, {" "}))
      common           == Cardinality(query_chars \cap title_chars)
  IN \/ Contains(normalized_title, normalized_query)
     \/ (Cardinality(query_chars) > 0 /\ 2 * common >= Cardinality(query_chars))
     \/ (Cardinality(query_chars) > 0 /\ common > 0)

\* ResourceSearch._is_relevant_content
resource_is_relevant_content(title, url, query) ==
  IF title = <<>> \/ query = <<>> THEN TRUE
  ELSE IF \E k \in 1..Len(irrelevant_keywords) : Contains(Lower(title), irrelevant_keywords[k])
         THEN FALSE
  ELSE _super_loose_match(query, title)

navigation_titles ==
  {<<"u66f4", "u591a">>, T("more"), <<"u4e0b", "u4e00", "u9875">>, T("next"),
   <<"u4e0a", "u4e00", "u9875">>, T("prev")}

\* the shortest title _parse_resource_site_results keeps is longer than this
MinTitleLen == 3

\* ResourceSearch._parse_resource_site_results over the a[href] elements of a page
RECURSIVE _parse_resource_site_results(_, _, _)
_parse_resource_site_results(items, query, domain) ==
  IF items = <<>> THEN <<>>
  ELSE
    LET item  == Head(items)
        rest  == _parse_resource_site_results(Tail(items), query, domain)
        href  == IF StartsWith(item.href, T("/")) THEN T("https://") \o domain \o item.href
                 ELSE item.href
        title == Strip(item.text)
    IN IF ~StartsWith(item.href, T("/")) /\ ~StartsWith(item.href, T("http")) THEN rest
       ELSE IF ~StartsWith(item.href, T("/")) /\ ~Contains(item.href, domain) THEN rest
       ELSE IF /\ title # <<>>
               /\ Len(title) > MinTitleLen
               /\ ~StartsWith(href, T("javascript:"))
               /\ ~StartsWith(href, T("mailto:"))
               /\ ~StartsWith(href, T("#"))
               /\ Lower(title) \notin navigation_titles
              THEN <<Result(title, href,
                            <<"u6765", "u81ea", " ">> \o domain \o <<" ", "u7684", "u8d44", "u6e90">>,
                            domain, 0)>> \o rest
              ELSE rest

video_paths ==
  <<T("/videos"), T("/video"), T("/v/"), T("/play/"), T("/player/"), T("/watch/"),
    T("/movie/"), T("/tv/"), T("/anime/"), T("/drama/"), T("/clip/"), T("/stream/"),
    T("/live/"), T("/x/"), T("/cover/"), T("/page/")>>

\* s.rfind(c), 1-based; 0 when c does not occur
RFind(s, c) ==
  IF \E i \in 1..Len(s) : s[i] = c
    THEN CHOOSE i \in 1..Len(s) : s[i] = c /\ \A j \in (i + 1)..Len(s) : s[j] # c
    ELSE 0

\* the window of characters inspected in front of the '?'
ParamWindow == 10

\* VideoSearch._is_video_content
_is_video_content(url, title) ==
  IF url = <<>> THEN FALSE
  ELSE IF Contains(url, T("bing.com")) /\ (Contains(url, T("search")) \/ Contains(url, T("videos/search")))
         THEN FALSE
  ELSE IF ~\E k \in 1..Len(video_paths) : Contains(url, video_paths[k]) THEN FALSE
  ELSE
    LET question_pos == Find(url, <<"?">>)
        url_before_param == SubSeq(url, 1, question_pos - 1)
        last_slash_pos == RFind(url_before_param, "/")
        domain_part == IF last_slash_pos > 0 THEN SubSeq(url_before_param, 1, last_slash_pos - 1)
                       ELSE SubSeq(url_before_param, 1, Len(url_before_param) - 1)
        chars_before_param ==
          IF Len(url_before_param) >= ParamWindow
            THEN SubSeq(url_before_param, Len(url_before_param) - ParamWindow + 1, Len(url_before_param))
            ELSE url_before_param
        has_search == EndsWith(Lower(chars_before_param), T("search"))
        has_video_path_before_param ==
          \E k \in 1..Len(video_paths) : EndsWith(Lower(chars_before_param), Tail(video_paths[k]))
    IN IF question_pos = 0 THEN TRUE
       ELSE IF Contains(domain_part, <<".">>)
              THEN ~(has_search \/ has_video_path_before_param)
              ELSE TRUE

\* VideoSearch._parse_search_results over the items the selectors found
RECURSIVE video_parse_search_results(_, _, _, _)
video_parse_search_results(items, query, engine, blacklist) ==
  IF items = <<>> THEN <<>>
  ELSE
    LET item == Head(items)
        href == _normalize_url(item.href)
        rest == video_parse_search_results(Tail(items), query, engine, blacklist)
    IN IF href = None THEN rest
       ELSE IF _is_blacklisted(blacklist, href) THEN rest
       ELSE LET title == _clean_title(Strip(item.text), href)
            IN IF title # <<>> /\ _is_video_content(href, title)
                 THEN <<Result(title, href, <<>>, engine, 0)>> \o rest
                 ELSE rest

\* U+4E00 <= char <= U+9FFF on a code point
IsChinese(c) ==
  /\ Len(c) = 5
  /\ LET v == 4096 * HexVal(SubSeq(c, 2, 2)) + 256 * HexVal(SubSeq(c, 3, 3))
              + 16 * HexVal(SubSeq(c, 4, 4)) + HexVal(SubSeq(c, 5, 5))
     IN v >= 19968 /\ v <= 40959

image_extensions ==
  <<T(".jpg"), T(".jpeg"), T(".png"), T(".gif"), T(".webp"), T(".bmp"), T(".svg"), T(".ico")>>

\* ImageSearch._is_image_content
_is_image_content(url, title) ==
  IF url = <<>> \/ title = <<>> THEN FALSE
  ELSE IF \E i \in 1..Len(title) : IsChinese(title[i]) THEN FALSE
  ELSE \E k \in 1..Len(image_extensions) : Contains(Lower(url), image_extensions[k])

IsDigit(c) == \E i \in 1..Len(Digits) : Digits[i] = c

\* int(s) of a run of decimal digits
RECURSIVE IntOf(_)
IntOf(s) ==
  IF s = <<>> THEN 0
  ELSE 10 * IntOf(SubSeq(s, 1, Len(s) - 1))
       + (CHOOSE i \in 1..Len(Digits) : Digits[i] = s[Len(s)]) - 1

\* the length of the run of digits that starts s
RECURSIVE DigitRun(_)
DigitRun(s) == IF s # <<>> /\ IsDigit(Head(s)) THEN 1 + DigitRun(Tail(s)) ELSE 0

\* [int(m) for m in re.findall(name + r'(\d+)', url)]
SizesOf(url, name) ==
  {IntOf(SubSeq(url, i + Len(name), i + Len(name) - 1 + DigitRun(SubSeq(url, i + Len(name), Len(url))))) :
     i \in {j \in 1..Len(url) : /\ j + Len(name) <= Len(url)
                                /\ SubSeq(url, j, j + Len(name) - 1) = name
                                /\ IsDigit(url[j + Len(name)])}}

size_patterns == <<T("w="), T("width="), T("h="), T("height="), T("size="), T("dim=")>>

small_image_indicators ==
  <<T("w=12"), T("h=12"), T("w=16"), T("h=16"), T("w=24"), T("h=24"), T("w=32"), T("h=32"),
    T("size=12"), T("size=16"), T("size=24"), T("size=32"), T("size=48"),
    T("thumb"), T("thumbnail"), T("icon"), T("favicon"), T("logo")>>

\* the smallest pixel size _is_valid_image accepts
MinPixels == 50

\* ImageSearch._is_valid_image
_is_valid_image(image_url) ==
  IF image_url = <<>> THEN FALSE
  ELSE IF \E k \in 1..Len(size_patterns) : \E size \in SizesOf(image_url, size_patterns[k]) : size < MinPixels
         THEN FALSE
  ELSE ~\E k \in 1..Len(small_image_indicators) : Contains(Lower(image_url), small_image_indicators[k])

direct_image_extensions ==
  <<T(".jpg"), T(".jpeg"), T(".png"), T(".gif"), T(".webp"), T(".bmp")>>

\* ImageSearch._extract_image_url followed by _extract_image_from_parent; link_image is
\* the first image attribute of the link or its img, parent_image the one of its ancestors
ExtractImage(item, href) ==
  IF StartsWith(item.link_image, T("http")) THEN item.link_image
  ELSE IF \E k \in 1..Len(direct_image_extensions) : EndsWith(Lower(href), direct_image_extensions[k])
         THEN href
  ELSE IF StartsWith(item.parent_image, T("http")) THEN item.parent_image
  ELSE None

\* ImageSearch._parse_bing_images_simple over the a[href] elements of a page
RECURSIVE _parse_bing_images_simple(_, _)
_parse_bing_images_simple(items, query) ==
  IF items = <<>> THEN <<>>
  ELSE
    LET item  == Head(items)
        href  == item.href
        title == Strip(item.text)
        rest  == _parse_bing_images_simple(Tail(items), query)
        image_url == ExtractImage(item, href)
    IN IF \/ href = <<>>
          \/ StartsWith(href, T("javascript:"))
          \/ StartsWith(href, T("#"))
          \/ StartsWith(href, T("mailto:"))
          \/ Len(title) < 2
         THEN rest
       ELSE IF Contains(href, T("bing.com")) THEN rest
       ELSE IF ~StartsWith(href, T("http")) THEN rest
       ELSE IF image_url # None /\ _is_valid_image(image_url)
              THEN <<Result(title, href, image_url, T("bing"), 0)>> \o rest
              ELSE rest

\* ImageSearch._parse_site_images over the img and a elements of a page; src is the
\* first of src, data-src, data-original of an img, alt the first of alt and title
RECURSIVE _parse_site_images(_, _, _)
_parse_site_images(items, query, domain) ==
  IF items = <<>> THEN <<>>
  ELSE
    LET item == Head(items)
        rest == _parse_site_images(Tail(items), query, domain)
        raw  == IF item.name = "img" THEN item.src
                ELSE IF \E e \in {T(".jpg"), T(".jpeg"), T(".png"), T(".gif"), T(".webp")} :
                          Contains(Lower(item.href), e)
                       THEN item.href ELSE <<>>
        img_url == IF StartsWith(raw, T("//")) THEN T("https:") \o raw
                   ELSE IF StartsWith(raw, T("/")) THEN T("https://") \o domain \o raw
                   ELSE IF ~StartsWith(raw, T("http")) THEN T("https://") \o domain \o T("/") \o raw
                   ELSE raw
        title == IF item.alt # <<>> THEN item.alt ELSE query
    IN IF raw = <<>> THEN rest
       ELSE IF _is_image_content(img_url, title)
              THEN <<Result(title, img_url, img_url, domain, 0)>> \o rest
              ELSE rest

(***************************************************************************)
(* Configuration (main.DEFAULT_CONFIG shape) and the eligible sites        *)
(***************************************************************************)

\* largest number of domains a configuration lists in one category
MaxSites == 5

\* sN.cn, a direct site
GenericDomain(n) == <<"s", Digits[n + 1]>> \o T(".cn")

\* one search-URL template of a direct site
Template(domain, k) == T("http://") \o domain \o <<"/", Digits[k + 1]>> \o T("?q={query}")

\* one category entry of a *_sites section; the section lists its entries in dict order
Category(name, enabled, domains, disabled, withUrls) ==
  [name          |-> name,
   enabled       |-> enabled,
   domains       |-> domains,
   domain_status |-> [d \in {domains[i] : i \in 1..Len(domains)} |-> d \notin disabled],
   search_urls   |-> [d \in {domains[i] : i \in 1..Len(domains)} \cap withUrls |-> <<Template(d, 1)>>]]

GenericDomains(n) == [i \in 1..n |-> GenericDomain(i)]
DomainSet(n) == {GenericDomain(i) : i \in 1..n}

EngineDomains == <<T("baidu.com"), T("bing.com"), T("sogou.com")>>

\* the sections a configuration can carry for one site type
SiteSections ==
  \* custom lists s1..sn, all enabled, each with one template
  {<<Category("custom", TRUE, GenericDomains(n), {}, DomainSet(n))>> : n \in 0..MaxSites}
  \cup
  \* the shipped web_sites section: the three engines
  {<<Category("custom", TRUE, EngineDomains, {},
              {EngineDomains[i] : i \in 1..Len(EngineDomains)})>>}
  \cup
  \* s1 disabled or without template, s2 with two templates; a second category sharing s2
  {<<[Category("custom", TRUE, GenericDomains(2), dis, DomainSet(2) \ nourl)
        EXCEPT !.search_urls =
          [d \in DOMAIN @ |-> IF d = GenericDomain(2)
                                THEN <<Template(d, 1), Template(d, 2)>> ELSE @[d]]],
      Category("extra", en, <<GenericDomain(2), GenericDomain(3)>>, {}, {GenericDomain(3)})>> :
       dis \in SUBSET {GenericDomain(1)}, nourl \in SUBSET {GenericDomain(1)}, en \in BOOLEAN}

\* the section name of a search type
SectionOf(kind) ==
  CASE kind = "web" -> "web_sites"
    [] kind = "images" -> "image_sites"
    [] kind = "videos" -> "video_sites"
    [] OTHER -> "resource_sites"

\* WebSearch._get_sites_by_type / ImageSearch._get_sites_by_type over one section
RECURSIVE SitesOfDomains(_, _, _)
SitesOfDomains(cat, domains, sites) ==
  IF domains = <<>> THEN sites
  ELSE LET domain == Head(domains)
       IN IF domain \in DOMAIN cat.domain_status /\ ~cat.domain_status[domain]
            THEN SitesOfDomains(cat, Tail(domains), sites)
            ELSE SitesOfDomains(cat, Tail(domains),
                   Append(sites, [domain      |-> domain,
                                  category    |-> cat.name,
                                  search_urls |-> IF domain \in DOMAIN cat.search_urls
                                                    THEN cat.search_urls[domain] ELSE <<>>]))

RECURSIVE SitesOfSection(_, _)
SitesOfSection(section, sites) ==
  IF section = <<>> THEN sites
  ELSE LET cat == Head(section)
       IN IF cat.enabled
            THEN SitesOfSection(Tail(section), SitesOfDomains(cat, cat.domains, sites))
            ELSE SitesOfSection(Tail(section), sites)

_get_sites_by_type(section) == SitesOfSection(section, <<>>)

\* resource_sites.get("custom", {})
CustomOf(section) ==
  IF \E i \in 1..Len(section) : section[i].name = "custom"
    THEN section[CHOOSE i \in 1..Len(section) : section[i].name = "custom"]
    ELSE [name |-> "custom", enabled |-> TRUE, domains |-> <<>>,
          domain_status |-> <<>>, search_urls |-> <<>>]

\* the domain loop of ResourceSearch._get_sites_by_type; st holds sites and processed_domains
RECURSIVE ResourceSitesOfDomains(_, _, _, _)
ResourceSitesOfDomains(custom, cat, domains, st) ==
  IF domains = <<>> THEN st
  ELSE LET domain == Head(domains)
       IN IF domain \in st.processed_domains
            THEN ResourceSitesOfDomains(custom, cat, Tail(domains), st)
          ELSE IF domain \in DOMAIN custom.domain_status /\ ~custom.domain_status[domain]
            THEN ResourceSitesOfDomains(custom, cat, Tail(domains), st)
          ELSE ResourceSitesOfDomains(custom, cat, Tail(domains),
                 [sites |-> Append(st.sites,
                                   [domain      |-> domain,
                                    category    |-> cat.name,
                                    search_urls |-> IF domain \in DOMAIN custom.search_urls
                                                      THEN custom.search_urls[domain] ELSE <<>>]),
                  processed_domains |-> st.processed_domains \cup {domain}])

RECURSIVE ResourceSitesOfSection(_, _, _)
ResourceSitesOfSection(custom, categories_to_search, st) ==
  IF categories_to_search = <<>> THEN st
  ELSE LET cat == Head(categories_to_search)
       IN IF cat.enabled
            THEN ResourceSitesOfSection(custom, Tail(categories_to_search),
                                        ResourceSitesOfDomains(custom, cat, cat.domains, st))
            ELSE ResourceSitesOfSection(custom, Tail(categories_to_search), st)

\* ResourceSearch._get_sites_by_type
resource_get_sites_by_type(section, category) ==
  LET named == SelectSeq(section, LAMBDA c : c.name = category)
      categories_to_search == IF category # "" /\ category # "all" THEN named ELSE section
  IN IF category # "" /\ category # "all" /\ named = <<>> THEN <<>>
     ELSE ResourceSitesOfSection(CustomOf(section), categories_to_search,
                                 [sites |-> <<>>, processed_domains |-> {}]).sites

\* the blacklist of main.DEFAULT_CONFIG
DefaultBlacklist ==
  [enabled |-> TRUE, domains |-> <<T("microsoft.com"), T("microsofttranslator.com")>>]

\* a configuration: UnifiedSearch hands the same dict to the four searchers
Config(section, engine_max_results) ==
  [web_sites      |-> section,
   image_sites    |-> section,
   video_sites    |-> section,
   resource_sites |-> section,
   blacklist      |-> DefaultBlacklist,
   settings       |-> [engine_max_results |-> engine_max_results]]

\* engine_max_results of main.DEFAULT_CONFIG
DefaultMaxResults == 35

\* the configurations a search starts from
Configs ==
  {Config(s, DefaultMaxResults) : s \in SiteSections}
  \cup {Config(<<Category("custom", TRUE, GenericDomains(n), {}, DomainSet(n))>>, 1) : n \in 1..2}

\* n search-URL templates for each domain of a list
Templates(domains, n) ==
  [d \in {domains[i] : i \in 1..Len(domains)} |-> [k \in 1..n[d] |-> Template(d, k)]]

ResourceDomains ==
  <<T("bbs.3dmgame.com"), T("ggbases.dlgal.com"), T("gugu3.com"), T("linovelib.com"),
    T("www.gamer520.com"), T("inarigal.com"), T("www.flysheep6.com")>>

\* the resource sites of the literal that carry a domain_status entry
ResourceWithStatus ==
  {T("bbs.3dmgame.com"), T("www.gamer520.com"), T("inarigal.com"), T("www.flysheep6.com")}

VideoDomains == <<T("bilibili.com")>>

\* the DEFAULT_CONFIG literal of main.py
DefaultConfig ==
  [web_sites      |-> <<[name          |-> "custom",
                         enabled       |-> TRUE,
                         domains       |-> EngineDomains,
                         domain_status |-> [d \in {EngineDomains[i] : i \in 1..3} |-> TRUE],
                         search_urls   |-> Templates(EngineDomains,
                                             [d \in {EngineDomains[i] : i \in 1..3} |-> 3])]>>,
   image_sites    |-> <<[name |-> "custom", enabled |-> TRUE, domains |-> <<>>,
                         domain_status |-> <<>>, search_urls |-> <<>>]>>,
   video_sites    |-> <<[name          |-> "custom",
                         enabled       |-> TRUE,
                         domains       |-> VideoDomains,
                         domain_status |-> [d \in {VideoDomains[1]} |-> TRUE],
                         search_urls   |-> Templates(VideoDomains, [d \in {VideoDomains[1]} |-> 2])]>>,
   resource_sites |-> <<[name          |-> "custom",
                         enabled       |-> TRUE,
                         domains       |-> ResourceDomains,
                         domain_status |-> [d \in ResourceWithStatus |-> TRUE],
                         search_urls   |-> Templates(ResourceDomains,
                                             [d \in {ResourceDomains[i] : i \in 1..7} |->
                                                IF d \in {ResourceDomains[i] : i \in 1..4}
                                                  THEN 2 ELSE 1])]>>,
   blacklist      |-> DefaultBlacklist,
   settings       |-> [engine_max_results |-> DefaultMaxResults]]

(***************************************************************************)
(* The network: what a fetch can answer and the pages the hosts serve      *)
(***************************************************************************)

\* the hosts that answer; a request to any other host ends in ConnectionError
Reachable ==
  {GenericDomain(1), GenericDomain(2), GenericDomain(3)}
    \cup {EngineDomains[i] : i \in 1..Len(EngineDomains)}

\* the ways one request can end: a 200 page, a 200 page the parser chokes on,
\* another status, requests.Timeout, requests.ConnectionError
Outcomes(host) ==
  IF host \in Reachable THEN {"ok", "garbled", "status", "timeout"} ELSE {"conn_error"}

\* an <a> and an <img> element of a page
A(href, text) == [name |-> "a", href |-> T(href), text |-> T(text), alt |-> <<>>, src |-> <<>>]
Img(src, alt) == [name |-> "img", href |-> <<>>, text |-> <<>>, alt |-> T(alt), src |-> T(src)]

\* soup.select('a[href]')
Anchors(page) == SelectSeq(page, LAMBDA e : e.name = "a")

\* the page a direct site serves for one of its search URLs
SitePage(search_url) ==
  CASE search_url = Template(GenericDomain(1), 1) ->
         <<A("/p", "ab x1"), A("http://t.cn/?s1.cn,s2.cn", "b yyy"), A("#", "top"),
           A("", "void"), A("ftp://s1.cn/f", "ab file"),
           Img("/a.png", "cat"), Img("http://i.cn/c.png", "")>>
    [] search_url = Template(GenericDomain(2), 1) ->
         <<A("/p", "q bbb"), A("http://t.cn/?s1.cn,s2.cn", "b zzz"), A("/ad", "road ab"),
           Img("http://i.cn/c.png", "dog"), Img("/d.gif", "d"), A("/e.jpg", "e")>>
    [] search_url = Template(GenericDomain(2), 2) ->
         <<A("/p", "q bbb"), A("/r", "ab x1"), Img("/d.gif", "d")>>
    [] search_url = Template(GenericDomain(3), 1) ->
         <<A("/p", "b www"), A("/q", "(ab) x1"), Img("//i.cn/e.jpg", "e")>>
    [] OTHER -> <<>>

\* the home page of a direct site, https://{domain}/
HomePage(domain) ==
  IF domain \in Reachable THEN <<Img("/h.png", "home"), Img("http://i.cn/c.png", "c")>> ELSE <<>>

\* the result items of the Bing web result pages 0, 1, 2, ...
BingPage(page) ==
  CASE page = 0 ->
         <<A("https://www.bing.com/ck/a?u=a1aHR0cDovL3QuY24vMQ", "ab x1"),
           A("http://e.cn/1", "b yyy"), A("https://www.bing.com/search?q=ab", "more"),
           A("https://www.microsoft.com/x", "ab ms"), A("http://e.cn/3?utm_source=b", "q bbb")>>
    [] page = 1 -> <<A("http://e.cn/1", "b yyy"), A("http://e.cn/3", "b www")>>
    [] OTHER -> <<A("http://e.cn/3", "b www")>>

\* the result items of the Baidu and Sogou result pages
BaiduPage == <<A("http://e.cn/1", "b yyy"), A("http://b.cn/1", "ab x2"), A("#", "ab")>>
SogouPage == <<A("http://g.cn/1", "q bbb"), A("http://b.cn/1?ref=s", "ab x3")>>

\* the result items of the Bing video result page
BingVideoPage ==
  <<A("http://v.cn/video/1", "ab vid"), A("http://v.cn/video/1", "ab again"),
    A("http://v.cn/video/search?q=ab", "find"), A("http://v.cn/about", "ab"),
    A("http://v.cn/play/2?t=1", "b play")>>

\* a link of the Bing image result page with the image attributes around it
ImgLink(href, text, link_image, parent_image) ==
  [href |-> T(href), text |-> T(text), link_image |-> T(link_image), parent_image |-> T(parent_image)]

BingImagePage ==
  <<ImgLink("http://p.cn/1", "ab pic", "http://i.cn/c.png", ""),
    ImgLink("http://p.cn/2", "ab same", "", "http://i.cn/c.png"),
    ImgLink("http://p.cn/3.jpg", "ab jpg", "", ""),
    ImgLink("http://p.cn/4", "ab tiny", "http://i.cn/t.png?w=40", ""),
    ImgLink("https://www.bing.com/images/x", "ab bing", "http://i.cn/x.png", ""),
    ImgLink("http://p.cn/5", "a", "http://i.cn/y.png", "")>>

(***************************************************************************)
(* The per-source searches.  resp[k] is how the k-th request of the call   *)
(* ends; slow is the number of the request during which the per-site       *)
(* timeout elapses (0: the call stays within its timeout).                 *)
(***************************************************************************)

\* a call that returned value, and a call that raised
Returned(value) == [raised |-> FALSE, value |-> value]
Raised == [raised |-> TRUE, value |-> <<>>]

\* WebSearch._search_web_site: the loop over search_urls from the k-th on
RECURSIVE _search_web_site(_, _, _, _, _, _, _)
_search_web_site(domain, query, search_urls, k, resp, slow, results) ==
  IF k > Len(search_urls) THEN results
  ELSE IF slow > 0 /\ k > slow THEN results
  ELSE IF resp[k] = "ok"
         THEN _search_web_site(domain, query, search_urls, k + 1, resp, slow,
                results \o _parse_web_site_results(Anchors(SitePage(search_urls[k])), query, domain))
  ELSE _search_web_site(domain, query, search_urls, k + 1, resp, slow, results)

\* WebSearch._search_bing
_search_bing(query, page, outcome, blacklist) ==
  IF outcome = "garbled" THEN Raised
  ELSE IF outcome # "ok" THEN Returned(<<>>)
  ELSE Returned(_parse_search_results(BingPage(page), query, T("bing"), blacklist))

\* WebSearch._search_baidu
_search_baidu(query, outcome, blacklist) ==
  IF outcome = "garbled" THEN Raised
  ELSE IF outcome # "ok" THEN Returned(<<>>)
  ELSE Returned(_parse_search_results(BaiduPage, query, T("baidu"), blacklist))

\* WebSearch._search_sogou
_search_sogou(query, outcome, blacklist) ==
  IF outcome = "garbled" THEN Raised
  ELSE IF outcome # "ok" THEN Returned(<<>>)
  ELSE Returned(_parse_search_results(SogouPage, query, T("sogou"), blacklist))

\* the results of page_results, whether their url was seen or not
AllResults(page_results, seen) == page_results

\* the results of page_results whose url is new, in order
RECURSIVE NewResults(_, _)
NewResults(page_results, seen) ==
  IF page_results = <<>> THEN <<>>
  ELSE LET result == Head(page_results)
       IN IF result.url # <<>> /\ result.url \notin seen
            THEN <<result>> \o NewResults(Tail(page_results), seen \cup {result.url})
            ELSE NewResults(Tail(page_results), seen)

\* WebSearch._search_multiple_pages: the loop from page on; answers[page + 1] is what
\* _search_bing gives for page, st holds all_results and the pages fetched so far
RECURSIVE PagesLoop(_, _, _, _)
PagesLoop(answers, page, max_pages, st) ==
  IF page >= max_pages THEN st
  ELSE LET r == answers[page + 1]
           fetched == Append(st.fetched, page)
           fresh == NewResults(r.value, {st.value[i].url : i \in 1..Len(st.value)})
       IN IF r.raised THEN [fetched |-> fetched, value |-> <<>>, raised |-> TRUE]
          ELSE IF r.value = <<>> THEN [st EXCEPT !.fetched = fetched]
          ELSE IF fresh = <<>> THEN [st EXCEPT !.fetched = fetched]
          ELSE PagesLoop(answers, page + 1, max_pages,
                         [fetched |-> fetched, value |-> st.value \o fresh, raised |-> FALSE])

\* the loop entered with all_results = [] and no page fetched
MultiplePages(answers, max_pages) ==
  PagesLoop(answers, 0, max_pages, [fetched |-> <<>>, value |-> <<>>, raised |-> FALSE])

_search_multiple_pages(query, max_pages, resp, blacklist) ==
  LET st == MultiplePages([p \in 1..max_pages |-> _search_bing(query, p - 1, resp[p], blacklist)],
                          max_pages)
  IN IF st.raised THEN Raised ELSE Returned(st.value)

\* max_pages of the two callers of _search_multiple_pages
MaxPages == 3

\* the scoring loop of _search_site_concurrent and of the fallback of WebSearch.search
ScoreAll(results, query) ==
  [i \in 1..Len(results) |->
     [results[i] EXCEPT !.score = _calculate_relevance_score(results[i].title, results[i].url, query)]]

\* the requests one call of _search_site_concurrent can send
Fetches(site_info) ==
  IF site_info.search_urls = <<>> THEN 0
  ELSE IF site_info.domain \in {T("bing.com"), T("www.bing.com")} THEN MaxPages
  ELSE IF site_info.domain \in {T("baidu.com"), T("www.baidu.com"),
                                T("sogou.com"), T("www.sogou.com")} THEN 1
  ELSE Len(site_info.search_urls)

\* WebSearch._search_site_concurrent
_search_site_concurrent(site_info, query, resp, slow, blacklist) ==
  LET domain == site_info.domain
      search_urls == site_info.search_urls
      direct_results ==
        IF domain \in {T("bing.com"), T("www.bing.com")}
          THEN _search_multiple_pages(query, MaxPages, resp, blacklist)
        ELSE IF domain \in {T("baidu.com"), T("www.baidu.com")}
          THEN _search_baidu(query, resp[1], blacklist)
        ELSE IF domain \in {T("sogou.com"), T("www.sogou.com")}
          THEN _search_sogou(query, resp[1], blacklist)
        ELSE Returned(_search_web_site(domain, query, search_urls, 1, resp, slow, <<>>))
  IN IF search_urls = <<>> THEN Returned(<<>>)
     ELSE IF direct_results.raised THEN Raised
     ELSE Returned(ScoreAll(direct_results.value, query))

\* https://{domain}/, what ImageSearch.search requests of a site without search URLs
HomeUrl(domain) == T("https://") \o domain \o T("/")

\* the page behind a URL of a direct site
PageAt(domain, search_url) ==
  IF search_url = HomeUrl(domain) THEN HomePage(domain) ELSE SitePage(search_url)

\* ImageSearch._search_direct_site: the loop over search_urls from the k-th on
RECURSIVE image_search_direct_site(_, _, _, _, _, _)
image_search_direct_site(domain, query, search_urls, k, resp, results) ==
  IF k > Len(search_urls) THEN results
  ELSE IF resp[k] = "ok"
         THEN image_search_direct_site(domain, query, search_urls, k + 1, resp,
                results \o _parse_site_images(PageAt(domain, search_urls[k]), query, domain))
  ELSE image_search_direct_site(domain, query, search_urls, k + 1, resp, results)

\* ImageSearch._search_bing
image_search_bing(query, outcome) ==
  IF outcome = "garbled" THEN Raised
  ELSE IF outcome # "ok" THEN Returned(<<>>)
  ELSE Returned(_parse_bing_images_simple(BingImagePage, query))

\* VideoSearch._search_bing
video_search_bing(query, outcome, blacklist) ==
  IF outcome = "garbled" THEN Raised
  ELSE IF outcome # "ok" THEN Returned(<<>>)
  ELSE Returned(video_parse_search_results(BingVideoPage, query, T("bing"), blacklist))

\* ResourceSearch._search_direct_site: the loop over search_urls from the k-th on
RECURSIVE resource_search_direct_site(_, _, _, _, _, _, _)
resource_search_direct_site(domain, query, search_urls, k, resp, slow, results) ==
  IF k > Len(search_urls) THEN results
  ELSE IF slow > 0 /\ k > slow THEN results
  ELSE IF resp[k] = "ok"
         THEN resource_search_direct_site(domain, query, search_urls, k + 1, resp, slow,
                results \o _parse_resource_site_results(Anchors(SitePage(search_urls[k])), query, domain))
  ELSE resource_search_direct_site(domain, query, search_urls, k + 1, resp, slow, results)

\* the relevance filter ResourceSearch.search applies to the results of one site
filtered_results(direct_results, query) ==
  SelectSeq(direct_results, LAMBDA r : resource_is_relevant_content(r.title, r.url, query))

\* the last steps of the four search() bodies: deduplicate, then rank
MergeRank(kind, results, query) ==
  CASE kind = "web" ->
         LET dedup == _smart_deduplication(results)
         IN SortDesc(dedup, [i \in 1..Len(dedup) |-> dedup[i].score])
    [] kind = "images" -> KeyDedupLoop(results, <<>>, {}, "snippet")
    [] kind = "videos" -> KeyDedupLoop(results, <<>>, {}, "url")
    [] OTHER ->
         LET dedup == KeyDedupLoop(results, <<>>, {}, "url")
         IN SortDesc(dedup, [i \in 1..Len(dedup) |-> get_priority_score(dedup[i], query)])

(***************************************************************************)
(* SearchOrchestrator: one UnifiedSearch.search call                       *)
(***************************************************************************)

VARIABLES
  config,          \* UnifiedSearch.config, shared by the four searchers
  call_query,           \* the query of the call
  stype,           \* the searcher the call is routed to ("none": unknown type)
  call_category,        \* the category filter handed to ResourceSearch.search
  pc,              \* where the calling thread is
  call_sites,           \* the list _get_sites_by_type returned
  fut,             \* web: one future per submitted task
  call_results,         \* the list the calling thread accumulates
  idx,             \* images, resources: the site the for loop is at
  ret,             \* the list search() returned
  engine_queried,  \* whether the call sent its built-in engine query
  queried,         \* the descriptors a site task was run for, in order
  toggled,         \* the toggle_site_enabled calls made so far, in order
  probe,           \* the last call of a link or scoring function: name, input, output
  DEFAULT_CONFIG,  \* main.DEFAULT_CONFIG, the dict object the literal built
  shared,          \* whether config holds the nested dicts and lists of DEFAULT_CONFIG
  admin            \* the calls that wrote or reset the configuration so far, in order

vars == <<config, call_query, stype, call_category, pc, call_sites, fut, call_results,
          idx, ret, engine_queried, queried, toggled, probe, DEFAULT_CONFIG, shared, admin>>

\* the arguments a call is made with
Queries == {<<>>, T("  "), T("ab")}
SearchTypes == {T("web"), T("Images"), T("videos"), T("resources"), T("files"), T("music")}
CategoryChoices == {"", "all", "custom", "extra", "none"}

\* no function called yet
NoProbe == [fn |-> "none", arg |-> <<>>, out |-> <<>>]

Init ==
  /\ config \in Configs
  /\ call_query = <<>>
  /\ stype = "none"
  /\ call_category = ""
  /\ pc = "idle"
  /\ call_sites = <<>>
  /\ fut = <<>>
  /\ call_results = <<>>
  /\ idx = 0
  /\ ret = <<>>
  /\ engine_queried = FALSE
  /\ queried = <<>>
  /\ toggled = <<>>
  /\ probe = NoProbe
  /\ DEFAULT_CONFIG = DefaultConfig
  /\ shared = FALSE
  /\ admin = <<>>

\* the cap of the worker pool
PoolCap == 4

\* a pool sized one worker per site
OnePerSite(n) == n

\* max_workers of the pool of WebSearch.search
max_workers(n) == IF n < PoolCap THEN n ELSE PoolCap

\* an exception that leaves search(): no except clause around the body
ExceptionEscapes == [pc |-> "raised", ret |-> <<>>]

\* except Exception: ... return [] around each search() body
OnException == [pc |-> "done", ret |-> <<>>]

\* the routing of UnifiedSearch.search
Searcher(search_type) ==
  CASE Lower(search_type) = T("web") -> "web"
    [] Lower(search_type) = T("images") -> "images"
    [] Lower(search_type) = T("videos") -> "videos"
    [] Lower(search_type) \in {T("files"), T("resources")} -> "resources"
    [] OTHER -> "none"

\* a test that rejects the empty query alone
EmptyOnly(q) == q = <<>>

\* not query or len(query.strip()) < 1
InvalidQuery(q) == q = <<>> \/ Len(Strip(q)) < 1

\* a future that has not started
Pending == [st |-> "pending", out |-> <<>>, late |-> FALSE]

\* UnifiedSearch.search up to the first request of the routed search()
Search(q, t, c) ==
  /\ pc = "idle"
  /\ call_query' = q
  /\ stype' = Searcher(t)
  /\ call_category' = IF Searcher(t) = "resources" THEN c ELSE ""
  /\ UNCHANGED <<config, DEFAULT_CONFIG, shared, admin, toggled, probe, call_results, engine_queried>>
  /\ IF Searcher(t) = "none" \/ InvalidQuery(q)
       THEN /\ pc' = "done" /\ ret' = <<>>
            /\ UNCHANGED <<call_sites, fut, idx, queried>>
     ELSE IF Searcher(t) = "web"
       THEN /\ call_sites' = _get_sites_by_type(config.web_sites)
            /\ UNCHANGED idx
            /\ IF max_workers(Len(call_sites')) <= 0
                 \* ThreadPoolExecutor raises ValueError: max_workers must be greater than 0
                 THEN /\ pc' = OnException.pc /\ ret' = OnException.ret
                      /\ UNCHANGED <<fut, queried>>
                 ELSE /\ pc' = "collect" /\ ret' = ret
                      /\ fut' = [i \in 1..Len(call_sites') |-> Pending]
                      /\ queried' = call_sites'
     ELSE IF Searcher(t) = "images"
       THEN /\ call_sites' = _get_sites_by_type(config.image_sites)
            /\ pc' = IF call_sites' = <<>> THEN "fallback" ELSE "loop"
            /\ idx' = 1
            /\ UNCHANGED <<fut, ret, queried>>
     ELSE IF Searcher(t) = "videos"
       THEN /\ pc' = "engine"
            /\ UNCHANGED <<call_sites, fut, idx, ret, queried>>
     ELSE /\ call_sites' = resource_get_sites_by_type(config.resource_sites, c)
          /\ idx' = 1
          /\ IF call_sites' = <<>>
               THEN /\ pc' = "done" /\ ret' = MergeRank("resources", <<>>, q)
               ELSE /\ pc' = "loop" /\ ret' = ret
          /\ UNCHANGED <<fut, queried>>

\* the futures a worker thread is running
Running == {i \in DOMAIN fut : fut[i].st = "running"}

\* a worker thread takes the oldest queued task
StartTask(i) ==
  /\ pc = "collect"
  /\ i \in DOMAIN fut
  /\ fut[i].st = "pending"
  /\ \A j \in 1..(i - 1) : fut[j].st # "pending"
  /\ Cardinality(Running) < max_workers(Len(call_sites))
  /\ fut' = [fut EXCEPT ![i].st = "running"]
  /\ UNCHANGED <<config, DEFAULT_CONFIG, shared, admin, toggled, probe, call_query, stype, call_category, pc, call_sites, call_results, idx, ret,
                 engine_queried, queried>>

\* the ways the requests of one call of _search_site_concurrent can go
TaskRuns(site_info) ==
  {[resp |-> resp, slow |-> slow] :
     resp \in [1..Fetches(site_info) -> Outcomes(site_info.domain)], slow \in 0..Fetches(site_info)}

\* the site descriptors and queries a web task is submitted with
WebTasks ==
  {task : task \in UNION {LET site_list == _get_sites_by_type(c.web_sites)
                          IN {[site_info |-> site_list[i], query |-> q] :
                                i \in 1..Len(site_list), q \in {q \in Queries : ~InvalidQuery(q)}} :
                          c \in Configs}}

\* _search_site_concurrent over the calls the worker threads make, evaluated once
SiteTask ==
  [task \in WebTasks |->
     [run \in TaskRuns(task.site_info) |->
        _search_site_concurrent(task.site_info, task.query, run.resp, run.slow, DefaultBlacklist)]]

\* a worker thread runs _search_site_concurrent to its end
FinishTask(i) ==
  /\ pc = "collect"
  /\ i \in DOMAIN fut
  /\ fut[i].st = "running"
  /\ \E run \in TaskRuns(call_sites[i]) :
       LET r == SiteTask[[site_info |-> call_sites[i], query |-> call_query]][run]
       IN fut' = [fut EXCEPT ![i] = [st   |-> IF r.raised THEN "raised" ELSE "done",
                                    out  |-> r.value,
                                    late |-> run.slow > 0]]
  /\ UNCHANGED <<config, DEFAULT_CONFIG, shared, admin, toggled, probe, call_query, stype, call_category, pc, call_sites, call_results, idx, ret,
                 engine_queried, queried>>

\* a future the as_completed loop is through with; nothing reads it again
Collected == [st |-> "collected", out |-> <<>>, late |-> FALSE]

\* a loop that takes the futures as soon as their task has started
Started(f) == f.st \in {"running", "done", "raised"}

\* as_completed yields the futures that have completed
Collectable(f) == f.st \in {"done", "raised"}

\* a failed task that takes the accumulated results with it
DropOnFailure(acc, f) == IF f.st = "raised" THEN <<>> ELSE acc \o f.out

\* results.extend(future.result(...)), or except Exception: continue
Accumulate(acc, f) == IF f.st = "raised" THEN acc ELSE acc \o f.out

\* one iteration of the as_completed loop; after the last one the calling thread
\* goes on to the fallback test, deduplication and ranking
Collect(i) ==
  /\ pc = "collect"
  /\ i \in DOMAIN fut
  /\ Collectable(fut[i])
  /\ fut' = [fut EXCEPT ![i] = Collected]
  /\ call_results' = Accumulate(call_results, fut[i])
  /\ IF \E j \in DOMAIN fut : j # i /\ fut[j].st # "collected"
       THEN pc' = "collect" /\ ret' = ret
     ELSE IF call_results' = <<>>
       THEN pc' = "fallback" /\ ret' = ret
     ELSE pc' = "done" /\ ret' = MergeRank("web", call_results', call_query)
  /\ UNCHANGED <<config, DEFAULT_CONFIG, shared, admin, toggled, probe, call_query, stype, call_category, call_sites, idx, engine_queried, queried>>

\* the state after the for loop over sites took the site at idx and left acc
AfterSite(acc) ==
  /\ call_results' = acc
  /\ IF idx < Len(call_sites)
       THEN idx' = idx + 1 /\ pc' = "loop" /\ ret' = ret
     ELSE IF stype = "images" /\ acc = <<>>
       THEN idx' = idx /\ pc' = "fallback" /\ ret' = ret
     ELSE idx' = idx /\ pc' = "done" /\ ret' = MergeRank(stype, acc, call_query)

\* one iteration of the for loop of ImageSearch.search
ImageSiteStep ==
  /\ pc = "loop"
  /\ stype = "images"
  /\ LET site_info == call_sites[idx]
         domain == site_info.domain
         search_urls == IF site_info.search_urls # <<>> THEN site_info.search_urls
                        ELSE <<HomeUrl(domain)>>
     IN \E resp \in [1..Len(search_urls) -> Outcomes(domain)] :
          AfterSite(call_results \o image_search_direct_site(domain, call_query, search_urls, 1, resp, <<>>))
  /\ queried' = Append(queried, call_sites[idx])
  /\ UNCHANGED <<config, DEFAULT_CONFIG, shared, admin, toggled, probe, call_query, stype, call_category, call_sites, fut, engine_queried>>

\* one iteration of the for loop of ResourceSearch.search
ResourceSiteStep ==
  /\ pc = "loop"
  /\ stype = "resources"
  /\ LET site_info == call_sites[idx]
         domain == site_info.domain
         search_urls == site_info.search_urls
     IN IF search_urls # <<>>
          THEN /\ \E resp \in [1..Len(search_urls) -> Outcomes(domain)] :
                    \E slow \in 0..Len(search_urls) :
                      AfterSite(call_results \o filtered_results(
                        resource_search_direct_site(domain, call_query, search_urls, 1, resp, slow, <<>>),
                        call_query))
               /\ queried' = Append(queried, site_info)
          ELSE /\ AfterSite(call_results)
               /\ queried' = queried
  /\ UNCHANGED <<config, DEFAULT_CONFIG, shared, admin, toggled, probe, call_query, stype, call_category, call_sites, fut, engine_queried>>

\* the state after the engine query of the call returned r
AfterEngine(r) ==
  IF r.raised
    THEN pc' = OnException.pc /\ ret' = OnException.ret /\ call_results' = call_results
    ELSE /\ call_results' = call_results \o r.value
         /\ pc' = "done"
         /\ ret' = MergeRank(stype, call_results', call_query)

\* if not results: the Bing fallback of WebSearch.search and of ImageSearch.search
Fallback ==
  /\ pc = "fallback"
  /\ engine_queried' = TRUE
  /\ IF stype = "web"
       THEN \E resp \in [1..MaxPages -> Outcomes(T("bing.com"))] :
              LET r == _search_multiple_pages(call_query, MaxPages, resp, config.blacklist)
              IN AfterEngine(IF r.raised THEN Raised ELSE Returned(ScoreAll(r.value, call_query)))
       ELSE \E outcome \in Outcomes(T("bing.com")) :
              AfterEngine(image_search_bing(call_query, outcome))
  /\ UNCHANGED <<config, DEFAULT_CONFIG, shared, admin, toggled, probe, call_query, stype, call_category, call_sites, fut, idx, queried>>

\* the Bing query of VideoSearch.search
VideoFetch ==
  /\ pc = "engine"
  /\ engine_queried' = TRUE
  /\ \E outcome \in Outcomes(T("bing.com")) :
       AfterEngine(video_search_bing(call_query, outcome, config.blacklist))
  /\ UNCHANGED <<config, DEFAULT_CONFIG, shared, admin, toggled, probe, call_query, stype, call_category, call_sites, fut, idx, queried>>

Next ==
  \/ \E q \in Queries : \E t \in SearchTypes : \E c \in CategoryChoices : Search(q, t, c)
  \/ \E i \in 1..Len(fut) : StartTask(i)
  \/ \E i \in 1..Len(fut) : FinishTask(i)
  \/ \E i \in 1..Len(fut) : Collect(i)
  \/ ImageSiteStep
  \/ ResourceSiteStep
  \/ Fallback
  \/ VideoFetch

Spec == Init /\ [][Next]_vars

(***************************************************************************)
(* Site management: toggle_site_enabled between searches                   *)
(***************************************************************************)

\* the number of toggle_site_enabled calls followed
MaxToggles == 2

\* config["domain_status"][domain] = enabled
SetStatus(cat, domain, enabled) ==
  [cat EXCEPT !.domain_status =
     [d \in DOMAIN cat.domain_status \cup {domain} |->
        IF d = domain THEN enabled ELSE cat.domain_status[d]]]

\* the loop of toggle_site_enabled over the categories of a section: the
\* status is written into the first enabled category, then break
RECURSIVE ToggleLoop(_, _, _)
ToggleLoop(section, domain, enabled) ==
  IF section = <<>> THEN <<>>
  ELSE IF Head(section).enabled
         THEN <<SetStatus(Head(section), domain, enabled)>> \o Tail(section)
  ELSE <<Head(section)>> \o ToggleLoop(Tail(section), domain, enabled)

\* toggle_site_enabled of the searcher of site_type on its section of the configuration
toggle_site_enabled(cfg, domain, site_type, enabled) ==
  IF Searcher(site_type) = "none" THEN cfg
  ELSE [cfg EXCEPT ![SectionOf(Searcher(site_type))] = ToggleLoop(@, domain, enabled)]

\* the arguments toggle_site_enabled is called with
ToggleDomains == {GenericDomain(3)}
ToggleTypes == {T("web"), T("files")}

\* UnifiedSearch.toggle_site_enabled, called before the search
Toggle(domain, site_type, enabled) ==
  /\ pc = "idle"
  /\ Len(toggled) < MaxToggles
  /\ config' = toggle_site_enabled(config, domain, site_type, enabled)
  \* the status dict that is written belongs to DEFAULT_CONFIG as well when shared
  /\ DEFAULT_CONFIG' = IF shared THEN config' ELSE DEFAULT_CONFIG
  /\ admin' = Append(admin, [op |-> "toggle_site_enabled", domain |-> domain,
                              site_type |-> site_type, search_urls |-> <<>>, category |-> ""])
  /\ UNCHANGED shared
  /\ toggled' = Append(toggled, [domain |-> domain, kind |-> Searcher(site_type), enabled |-> enabled])
  /\ UNCHANGED <<call_query, stype, call_category, pc, call_sites, fut, call_results,
                 idx, ret, engine_queried, queried, probe>>

\* the configurations with several categories in a section, every site of the
\* first one enabled and with a search URL
ToggleConfigs ==
  {c \in Configs : /\ Len(c.web_sites) > 1
                   /\ DOMAIN c.web_sites[1].search_urls = DOMAIN c.web_sites[1].domain_status
                   /\ \A d \in DOMAIN c.web_sites[1].domain_status : c.web_sites[1].domain_status[d]}

InitToggle == Init /\ config \in ToggleConfigs

NextToggle ==
  \/ \E d \in ToggleDomains : \E t \in ToggleTypes : \E e \in BOOLEAN : Toggle(d, t, e)
  \/ Next

ToggleSpec == InitToggle /\ [][NextToggle]_vars

(***************************************************************************)
(* Administration of the configuration: add_site and reset_config          *)
(***************************************************************************)

\* the number of add_site and reset_config calls followed
MaxAdmin == 3

\* d[key] = value on a dict
Put(d, key, value) == [k \in DOMAIN d \cup {key} |-> IF k = key THEN value ELSE d[k]]

\* the body of add_site on the category it targets
AddToCategory(cat, domain, search_urls) ==
  IF \E i \in 1..Len(cat.domains) : cat.domains[i] = domain
    THEN IF search_urls # <<>>
           THEN [cat EXCEPT !.search_urls = Put(@, domain, search_urls)]
           ELSE cat
    ELSE [cat EXCEPT !.domains = Append(@, domain),
                     !.search_urls = IF search_urls # <<>> THEN Put(@, domain, search_urls) ELSE @,
                     !.domain_status = Put(@, domain, TRUE)]

\* a category that add_site creates
NewCategory(name) ==
  [name |-> name, enabled |-> TRUE, domains |-> <<>>, domain_status |-> <<>>, search_urls |-> <<>>]

\* add_site of one searcher on its section: the category is fetched or created, then written
AddToSection(section, category, domain, search_urls) ==
  IF \E i \in 1..Len(section) : section[i].name = category
    THEN [i \in 1..Len(section) |->
            IF section[i].name = category
              THEN AddToCategory(section[i], domain, search_urls) ELSE section[i]]
    ELSE Append(section, AddToCategory(NewCategory(category), domain, search_urls))

\* UnifiedSearch.add_site: WebSearch, ImageSearch and VideoSearch write into custom,
\* ResourceSearch into the category it is given
add_site(cfg, domain, site_type, search_urls, category) ==
  IF site_type = T("web")
    THEN [cfg EXCEPT !.web_sites = AddToSection(@, "custom", domain, search_urls)]
  ELSE IF site_type = T("images")
    THEN [cfg EXCEPT !.image_sites = AddToSection(@, "custom", domain, search_urls)]
  ELSE IF site_type = T("videos")
    THEN [cfg EXCEPT !.video_sites = AddToSection(@, "custom", domain, search_urls)]
  ELSE IF site_type \in {T("files"), T("resources")}
    THEN [cfg EXCEPT !.resource_sites = AddToSection(@, category, domain, search_urls)]
  ELSE cfg

\* the arguments add_site is called with
AddDomains == {GenericDomain(3)}
AddTypes == {T("web"), T("resources")}
AddUrls == {<<>>, <<Template(GenericDomain(3), 1)>>}
AddCategories == {"custom", "extra"}

\* POST /api/sites -> UnifiedSearch.add_site, called before the search
AddSite(domain, site_type, search_urls, category) ==
  /\ pc = "idle"
  /\ Len(admin) < MaxAdmin
  /\ config' = add_site(config, domain, site_type, search_urls, category)
  \* the lists and dicts that are written belong to DEFAULT_CONFIG as well when shared
  /\ DEFAULT_CONFIG' = IF shared THEN config' ELSE DEFAULT_CONFIG
  /\ admin' = Append(admin, [op |-> "add_site", domain |-> domain, site_type |-> site_type,
                              search_urls |-> search_urls, category |-> category])
  /\ UNCHANGED <<shared, call_query, stype, call_category, pc, call_sites, fut, call_results,
                 idx, ret, engine_queried, queried, toggled, probe>>

\* POST /api/config/reset: new_config = DEFAULT_CONFIG.copy(), a copy of the top level only
Reset ==
  /\ pc = "idle"
  /\ Len(admin) < MaxAdmin
  /\ config' = DEFAULT_CONFIG
  /\ shared' = TRUE
  /\ admin' = Append(admin, [op |-> "reset_config", domain |-> <<>>, site_type |-> <<>>,
                              search_urls |-> <<>>, category |-> ""])
  /\ UNCHANGED <<DEFAULT_CONFIG, call_query, stype, call_category, pc, call_sites, fut,
                 call_results, idx, ret, engine_queried, queried, toggled, probe>>

\* the configurations the file holds when the program starts
ResetConfigs ==
  {DefaultConfig, Config(<<Category("custom", TRUE, GenericDomains(2), {}, DomainSet(2))>>,
                         DefaultMaxResults)}

InitReset == Init /\ config \in ResetConfigs

NextReset ==
  \/ \E d \in AddDomains : \E t \in AddTypes : \E u \in AddUrls : \E c \in AddCategories :
       AddSite(d, t, u, c)
  \/ \E d \in ToggleDomains : \E t \in ToggleTypes : \E e \in BOOLEAN : Toggle(d, t, e)
  \/ Reset

ResetSpec == InitReset /\ [][NextReset]_vars

\* the configurations a site is added to: every category and every site enabled
AddConfigs ==
  {c \in Configs : /\ c.settings.engine_max_results = DefaultMaxResults
                   /\ c.resource_sites[1].domains \in {GenericDomains(1), GenericDomains(2)}
                   /\ \A i \in 1..Len(c.resource_sites) :
                        /\ c.resource_sites[i].enabled
                        /\ \A d \in DOMAIN c.resource_sites[i].domain_status :
                             c.resource_sites[i].domain_status[d]}

\* the site types that reach ResourceSearch.add_site
ResourceTypes == {T("files"), T("resources")}

InitAdd == Init /\ config \in AddConfigs

\* the first add_site call since the program started
AddFirst(domain, site_type, search_urls, category) ==
  /\ admin = <<>>
  /\ AddSite(domain, site_type, search_urls, category)

\* one add_site call, then a search
NextAdd ==
  \/ \E d \in AddDomains : \E t \in ResourceTypes : \E u \in AddUrls : \E c \in AddCategories :
       AddFirst(d, t, u, c)
  \/ Next

AddSpec == InitAdd /\ [][NextAdd]_vars

(***************************************************************************)
(* The functions of LinkResolver, RelevanceScorer and the extraction,      *)
(* each called once on an input of a bounded set                           *)
(***************************************************************************)

\* the query the extraction functions are called with
ProbeQuery == T("ab")

\* the href attributes a result page can carry
LinkHrefs ==
  {"http://e.cn/ab", "http://microsoft.com/ab", "https://www.bing.com/videos/watch/ab",
   "https://www.bing.com/search?q=ab", "http://www.baidu.com/link?url=ab", "/link?url=ab",
   "ftp://e.cn/ab", "ab.html", "httpx://e.cn/ab", "//c.cn/ab", "/ab", "/video/ab",
   "JavaScript:ab()", "#ab", "#", "", "mailto:a@b.cn", "tel:12", "data:ab", "about:blank",
   "chrome://ab", "FILE:///ab", " javascript:ab"}

\* the engine names _parse_search_results is called with
EngineNames == {T("bing"), T("baidu"), T("sogou")}

\* the configurations of the calls: no direct sites, the blacklist switched on or off
ProbeConfigs ==
  {[Config(<<Category("custom", TRUE, <<>>, {}, {})>>, DefaultMaxResults)
      EXCEPT !.blacklist.enabled = e] : e \in BOOLEAN}

\* the URLs _unwrap_bing_url is called with
UnwrapInputs ==
  {T("https://www.bing.com/ck/a?u=") \o T(u) :
     u \in {"a1aHR0cDovL3QuY24vMQ", "aHR0cDovL3QuY24vMQ", "a1aHR0cHM6Ly9lLmNuL2Fi",
            "aHR0cHM6Ly9lLmNuL2Fi", "a1aHR0cDovL2UuY24", "aHR0cDovL2UuY24", "a1aHR0cA",
            "aHR0cA", "a", "a1a", "Zm9v", "a1Zm9v", "!!!!", "", "aHR0c", "a1", "_w", "a1_w"}}
  \cup {T("https://www.bing.com/ck/a?p=1&u=a1aHR0cDovL3QuY24vMQ&ntb=1"),
        T("https://www.bing.com/ck/a?p=1"), T("https://www.bing.com/ab"),
        T("http://e.cn/ck/a?u=a1aHR0cDovL3QuY24vMQ")}

\* the arguments _calculate_relevance_score is called with
ScoreTitles ==
  {T("ab x1"), T("AB x1"), T("b yyy"), T("(a)b"), T("a b"), T("xyz"), T("ab wiki"),
   T("About b"), T(" "), T("a*b."), T("ba"), <<>>}
ScoreUrls == {T("http://e.cn/1"), T("http://e.cn/Wiki/1")}
ScoreQueries == {T("ab"), T("a b"), T("A.B"), T("q"), T("."), <<>>}

\* one call of a function: its name, its argument and what it returned
Call(fn, arg, out) ==
  /\ pc = "idle"
  /\ probe' = [fn |-> fn, arg |-> arg, out |-> out]
  /\ UNCHANGED <<config, DEFAULT_CONFIG, shared, admin, call_query, stype, call_category, pc,
                 call_sites, fut, call_results, idx, ret, engine_queried, queried, toggled>>

\* BaseSearch._unwrap_bing_url(bing_url)
CallUnwrap ==
  /\ probe = NoProbe
  /\ \E u \in UnwrapInputs : Call("_unwrap_bing_url", u, _unwrap_bing_url(u))

\* BaseSearch._normalize_url(href)
CallNormalize ==
  /\ probe = NoProbe
  /\ \E h \in LinkHrefs : Call("_normalize_url", T(h), _normalize_url(T(h)))

\* WebSearch._calculate_relevance_score(title, url, query)
CallScore ==
  /\ probe = NoProbe
  /\ \E t \in ScoreTitles : \E u \in ScoreUrls : \E q \in ScoreQueries :
       Call("_calculate_relevance_score", [title |-> t, url |-> u, query |-> q],
            _calculate_relevance_score(t, u, q))

\* WebSearch._parse_search_results on the result page of an engine with one item
CallParseEngine ==
  /\ probe = NoProbe
  /\ \E e \in EngineNames : \E h \in LinkHrefs :
       Call("_parse_search_results", [href |-> T(h), source |-> e],
            _parse_search_results(<<A(h, "ab x1")>>, ProbeQuery, e, config.blacklist))

\* WebSearch._parse_web_site_results on the page of a direct site with one link
CallParseSite ==
  /\ probe = NoProbe
  /\ \E d \in {GenericDomain(1)} : \E h \in LinkHrefs :
       Call("_parse_web_site_results", [href |-> T(h), source |-> d],
            _parse_web_site_results(<<A(h, "ab x1")>>, ProbeQuery, d))

\* VideoSearch._parse_search_results on the Bing video page with one item
CallParseVideo ==
  /\ probe = NoProbe
  /\ \E h \in LinkHrefs :
       Call("video_parse_search_results", [href |-> T(h), source |-> T("bing")],
            video_parse_search_results(<<A(h, "ab x1")>>, ProbeQuery, T("bing"), config.blacklist))

\* ImageSearch._parse_bing_images_simple on the Bing image page with one link
CallParseImage ==
  /\ probe = NoProbe
  /\ \E h \in LinkHrefs :
       Call("_parse_bing_images_simple", [href |-> T(h), source |-> T("bing")],
            _parse_bing_images_simple(<<ImgLink(h, "ab x1", "http://i.cn/c.png", "")>>, ProbeQuery))

\* the results the site tasks of a web search hand back, before they are scored
MergeItems ==
  {Result(T(r[1]), T(r[2]), <<>>, T("s1.cn"), 0) :
     r \in {<<"ab x1", "http://e.cn/1">>, <<"a b wiki", "http://e.cn/2">>,
            <<"AB official", "http://e.cn/3">>, <<"b yyy", "http://e.cn/1?utm_term=x">>,
            <<"q zzz", "http://e.cn/1?ref=s">>, <<".", "http://e.cn/6">>,
            <<",", "http://e.cn/7">>, <<"1x ba", "http://e.cn/8">>, <<"ab x1", "">>}}

\* the longest accumulated list followed
MaxMerge == 3

\* the accumulated lists: the results in the order the tasks completed
MergeInputs == UNION {[1..n -> MergeItems] : n \in 1..MaxMerge}

\* WebSearch.search after the collection: the scored results are deduplicated,
\* then sorted by score
CallMerge ==
  /\ probe = NoProbe
  /\ \E l \in MergeInputs :
       Call("merge", l,
            [dedup  |-> _smart_deduplication(ScoreAll(l, ProbeQuery)),
             ranked |-> MergeRank("web", ScoreAll(l, ProbeQuery), ProbeQuery)])

\* the URLs and titles _is_video_content is called with
VideoUrls ==
  {T(u) : u \in {"https://site.com/video/12345", "https://site.com/video/search?q=x",
                 "https://site.com/about", "http://localhost/video/search?q=x",
                 "x/video/search?q=1", "https://www.bing.com/videos/search",
                 "https://site.com/video/1?t=2", "https://site.com/watch/?v=1",
                 "https://site.com/video?id=3", "https://site.com/tv/research?p=1",
                 "https://site.com/Video/SEARCH?q=x", "https://site.com/play/9", ""}}
VideoTitles == {T("ab x1"), T("login")}

\* VideoSearch._is_video_content(url, title)
CallIsVideo ==
  /\ probe = NoProbe
  /\ \E u \in VideoUrls : \E t \in VideoTitles :
       Call("_is_video_content", [url |-> u, title |-> t], _is_video_content(u, t))

\* the resolved image URLs _is_valid_image is called with
ImageUrls ==
  {T("http://i.cn/c.png") \o T(q) :
     q \in {"", "?w=120", "?w=1200&h=800", "?w=40", "?w=50", "?w=49&h=300", "?h=160",
            "?w=300&h=200", "?w=99", "?w=100&h=100", "?h=8", "?w=640&h=480", "?w=500&h=45"}}

\* ImageSearch._is_valid_image(image_url)
CallValidImage ==
  /\ probe = NoProbe
  /\ \E u \in ImageUrls : Call("_is_valid_image", u, _is_valid_image(u))

\* the number of selectors WebSearch._parse_search_results and
\* Oldweb_search.WebSearch._parse_baidu_results try
WebSelectors == 8
BaiduSelectors == 6

\* the first selector that matches an element of the page; 0 when none does
FirstMatch(matches) ==
  IF \E k \in 1..Len(matches) : matches[k] # <<>>
    THEN CHOOSE k \in 1..Len(matches) :
           matches[k] # <<>> /\ \A j \in 1..(k - 1) : matches[j] = <<>>
    ELSE 0

\* WebSearch._parse_search_results with its selector loop: the items of the first
\* selector that matches are parsed and the loop is left; all links otherwise
SelectAndParse(page, query, engine, blacklist) ==
  Let(FirstMatch(page.matches), LAMBDA k :
    IF k > 0
      THEN [results   |-> _parse_search_results(page.matches[k], query, engine, blacklist),
            evaluated |-> k, fallback |-> FALSE]
      ELSE [results   |-> _parse_search_results(page.links, query, engine, blacklist),
            evaluated |-> Len(page.matches), fallback |-> TRUE])

\* Oldweb_search.WebSearch._get_baidu_real_url: an href is its own target unless
\* it is a redirect link, whose target, or None, the network answers
_get_baidu_real_url(href, answer) ==
  IF href = <<>> \/ ~StartsWith(href, T("/link?url=")) THEN href ELSE answer

\* the item loop of Oldweb_search.WebSearch._parse_baidu_results
RECURSIVE BaiduItems(_, _)
BaiduItems(items, answer) ==
  IF items = <<>> THEN <<>>
  ELSE
    Let(Head(items), LAMBDA item :
    Let(_get_baidu_real_url(item.href, answer), LAMBDA real_url :
    Let(BaiduItems(Tail(items), answer), LAMBDA rest :
      IF item.href = <<>> \/ Strip(item.text) = <<>> \/ StartsWith(item.href, T("javascript:"))
        THEN rest
      ELSE IF real_url = None \/ real_url = <<>> THEN rest
      ELSE Let(_clean_title(Strip(item.text), real_url), LAMBDA title :
             IF title = <<>> THEN rest
             ELSE <<Result(title, real_url, T("baidu: ") \o title, T("baidu"), 0)>> \o rest))))

\* the selector loop of Oldweb_search.WebSearch._parse_baidu_results: it is left
\* only once results is not empty
RECURSIVE BaiduSelectorLoop(_, _, _, _)
BaiduSelectorLoop(page, k, found, answer) ==
  IF k > Len(page.matches)
    THEN [results   |-> IF found THEN <<>> ELSE BaiduItems(page.links, answer),
          evaluated |-> Len(page.matches), fallback |-> ~found]
  ELSE IF page.matches[k] = <<>> THEN BaiduSelectorLoop(page, k + 1, found, answer)
  ELSE Let(BaiduItems(page.matches[k], answer), LAMBDA results :
         IF results # <<>> THEN [results |-> results, evaluated |-> k, fallback |-> FALSE]
         ELSE BaiduSelectorLoop(page, k + 1, TRUE, answer))

\* Oldweb_search.WebSearch._parse_baidu_results
_parse_baidu_results(page, answer) == BaiduSelectorLoop(page, 1, FALSE, answer)

\* what one selector can match: nothing, an item that is rejected, one that is kept
SelectorMatches ==
  {<<>>, <<A("javascript:ab()", "ab x1")>>, <<A("http://b.cn/1", "ab x2")>>,
   <<A("#", "ab x3"), A("http://b.cn/2", "ab x4")>>}

\* the result pages with n selectors, of which the second and the third can match
SelectorPages(n) ==
  {[matches |-> [k \in 1..n |-> IF k = 2 THEN m2 ELSE IF k = 3 THEN m3 ELSE <<>>],
    links   |-> l] :
     m2 \in SelectorMatches, m3 \in SelectorMatches,
     l \in {<<>>, <<A("http://b.cn/3", "ab x5"), A("/link?url=ab", "ab x6")>>}}

\* WebSearch._parse_search_results on a result page
CallSelectAndParse ==
  /\ probe = NoProbe
  /\ \E page \in SelectorPages(WebSelectors) : \E e \in EngineNames :
       Call("SelectAndParse", [matches |-> page.matches, links |-> page.links, engine |-> e],
            SelectAndParse(page, ProbeQuery, e, config.blacklist))

\* Oldweb_search.WebSearch._parse_baidu_results on a result page
CallParseBaidu ==
  /\ probe = NoProbe
  /\ \E page \in SelectorPages(BaiduSelectors) : \E answer \in {None, T("http://t.cn/1")} :
       Call("_parse_baidu_results", [matches |-> page.matches, links |-> page.links, answer |-> answer],
            _parse_baidu_results(page, answer))

\* the results a Bing page can hold
PageItems ==
  [n \in 0..3 |-> Result(T("ab"), IF n = 0 THEN <<>> ELSE T("http://e.cn/") \o <<Digits[n + 1]>>,
                         <<>>, T("bing"), 0)]

\* what _search_bing can give for one page
PageAnswers ==
  {Raised, Returned(<<>>), Returned(<<PageItems[0]>>), Returned(<<PageItems[1]>>),
   Returned(<<PageItems[1], PageItems[2]>>), Returned(<<PageItems[2], PageItems[2]>>),
   Returned(<<PageItems[3]>>)}

CallMultiplePages ==
  /\ probe = NoProbe
  /\ \E answers \in [1..MaxPages -> PageAnswers] : \E max_pages \in 0..MaxPages :
       Call("_search_multiple_pages", [answers |-> answers, max_pages |-> max_pages],
            MultiplePages(answers, max_pages))

InitProbe ==
  /\ config \in ProbeConfigs
  /\ call_query = <<>>
  /\ stype = "none"
  /\ call_category = ""
  /\ pc = "idle"
  /\ call_sites = <<>>
  /\ fut = <<>>
  /\ call_results = <<>>
  /\ idx = 0
  /\ ret = <<>>
  /\ engine_queried = FALSE
  /\ queried = <<>>
  /\ toggled = <<>>
  /\ probe = NoProbe
  /\ DEFAULT_CONFIG = DefaultConfig
  /\ shared = FALSE
  /\ admin = <<>>

NextProbe ==
  \/ CallUnwrap
  \/ CallNormalize
  \/ CallScore
  \/ CallParseEngine
  \/ CallParseSite
  \/ CallParseVideo
  \/ CallParseImage
  \/ CallMerge
  \/ CallIsVideo
  \/ CallValidImage
  \/ CallSelectAndParse
  \/ CallParseBaidu
  \/ CallMultiplePages

ProbeSpec == InitProbe /\ [][NextProbe]_vars

(***************************************************************************)
(* Properties                                                              *)
(***************************************************************************)

\* the fields of a result record
ResultFields == {"title", "url", "snippet", "source", "score"}

\* l is a list of result records
IsResultList(l) == DOMAIN l = 1..Len(l) /\ \A i \in 1..Len(l) : DOMAIN l[i] = ResultFields

\* a call with a query the searchers accept, routed to one of the four searchers
ValidCall == stype # "none" /\ ~InvalidQuery(call_query)

\* the domains a section lists, an upper bound of the sites of one call
RECURSIVE Listed(_)
Listed(section) == IF section = <<>> THEN 0 ELSE Len(Head(section).domains) + Listed(Tail(section))

\* an upper bound of the steps the call still takes
StepsLeft ==
  CASE pc = "idle" -> 3 * Listed(config.web_sites) + 3
    [] pc = "collect" ->
         2 + 3 * Cardinality({i \in DOMAIN fut : fut[i].st = "pending"})
           + 2 * Cardinality(Running)
           + Cardinality({i \in DOMAIN fut : Collectable(fut[i])})
    [] pc = "loop" -> 2 + Len(call_sites) - idx
    [] pc \in {"engine", "fallback"} -> 1
    [] OTHER -> 0

\* the result count at which the search loop of Oldweb_search.py stops asking
\* further search engines
WebTarget == 140

\* the result count at which a search of the category has enough: the
\* len(results) >= ... tests of the site loops of Oldweb_search.py
Target(kind) == IF kind = "web" THEN WebTarget ELSE config.settings.engine_max_results

\* the enabled site descriptors configured for the category of the call
Eligible ==
  IF stype = "resources"
    THEN resource_get_sites_by_type(config.resource_sites, call_category)
    ELSE _get_sites_by_type(config[SectionOf(stype)])

\* the calling thread or a worker thread has a step to take
CanStep ==
  \/ pc \in {"idle", "engine"}
  \/ pc = "collect" /\ \E i \in DOMAIN fut :
       \/ fut[i].st = "running"
       \/ Collectable(fut[i])
       \/ fut[i].st = "pending" /\ Cardinality(Running) < max_workers(Len(call_sites))
  \/ pc = "loop" /\ stype \in {"images", "resources"} /\ idx \in 1..Len(call_sites)
  \/ pc = "fallback" /\ stype \in {"web", "images"}

\* C1: whatever the query, the category and the outcomes of the requests,
\* search() ends, and it ends by returning a list of results: no exception
\* leaves it (a step is possible until the list is returned, and every step
\* brings the return nearer), and after a caught exception the list is empty.
C1_SearchReturnsList ==
  /\ [](pc \in {"idle", "collect", "loop", "engine", "fallback", "done"})
  /\ [](pc = "done" => IsResultList(ret))
  /\ [](pc # "done" => CanStep)
  /\ [][StepsLeft' < StepsLeft]_vars

\* a web search over an empty site list has ended in the except clause, and a
\* video search whose engine page could not be parsed has too
C1_Witness ==
  /\ pc = "done" /\ ValidCall /\ ret = <<>>
  /\ \/ stype = "web" /\ call_sites = <<>>
     \/ stype = "videos" /\ engine_queried

\* the dedup key of a result of the call: the image URL (held in "snippet")
\* of an image result, the URL of any other result
DedupKey(item) == IF stype = "images" THEN item.snippet ELSE item.url

\* C2: in every category the returned list holds no two entries with the
\* same dedup key, whatever the sources and the fallback produced.
C2_NoDuplicateKey ==
  pc = "done" =>
    \A i, j \in 1..Len(ret) : i # j => DedupKey(ret[i]) # DedupKey(ret[j])

\* a web search has returned two or more results from an accumulated list
\* that held one URL twice
C2_Witness ==
  /\ pc = "done" /\ stype = "web" /\ Len(ret) >= 2
  /\ \E i, j \in 1..Len(call_results) : i # j /\ call_results[i].url = call_results[j].url

\* the score the category ranks by: the stored score of a web result, the
\* priority score of a resource result; image and video results carry none
\* (item.get("score", 0))
RankKey(item) == IF stype = "resources" THEN get_priority_score(item, call_query) ELSE item.score

\* the place at which item was first accumulated
FirstSeen(item) ==
  CHOOSE k \in 1..Len(call_results) :
    call_results[k] = item /\ \A m \in 1..(k - 1) : call_results[m] # item

\* C3: in every category the returned list is in non-increasing order of
\* score, and entries of equal score are in the order they were accumulated in.
C3_SortedStable ==
  pc = "done" /\ ret # <<>> =>
    \A i, j \in 1..Len(ret) :
      i < j => /\ RankKey(ret[i]) >= RankKey(ret[j])
               /\ RankKey(ret[i]) = RankKey(ret[j]) => FirstSeen(ret[i]) < FirstSeen(ret[j])

\* a search has returned a list with two entries of equal score and two of
\* different score, one of which ranking moved in front of an earlier one
C3_Witness ==
  /\ pc = "done" /\ stype \in {"web", "resources"}
  /\ \E i, j \in 1..Len(ret) : i < j /\ RankKey(ret[i]) = RankKey(ret[j])
  /\ \E i, j \in 1..Len(ret) : i < j /\ RankKey(ret[i]) > RankKey(ret[j])
                                 /\ FirstSeen(ret[i]) > FirstSeen(ret[j])

\* C4: whenever the collection of a valid call ends with nothing accumulated,
\* in any category and over any list of eligible sites, the empty one
\* included, the built-in engine query is sent before the results are merged.
C4_FallbackWhenEmpty ==
  pc = "done" /\ ValidCall /\ ~engine_queried => call_results # <<>>

C6_LateResultsDiscarded ==
  [][\A i \in DOMAIN fut :
       pc = "collect" /\ Collectable(fut[i]) /\ fut[i].late /\ fut'[i].st = "collected" =>
         call_results' = call_results]_vars

\* C7: at every moment of a web search over N eligible sites at most
\* min(N, 4) site tasks are running.
C7_PoolBound ==
  Cardinality(Running) <= IF Len(call_sites) < 4 THEN Len(call_sites) ELSE 4

\* four tasks are running and a fifth one waits for a worker
C7_Witness ==
  /\ pc = "collect" /\ Len(call_sites) > 4 /\ Cardinality(Running) = 4
  /\ \E i \in DOMAIN fut : fut[i].st = "pending"

\* C8: in every category one site task is run for each eligible site
\* descriptor configured for the category: none is left out, and no domain is
\* asked twice, also when several categories list it.
C8_OneTaskPerSite ==
  pc = "done" /\ ValidCall =>
    /\ queried = Eligible
    /\ \A i, j \in 1..Len(queried) : i # j => queried[i].domain # queried[j].domain

\* C9: no two site tasks write the same state: a step of a site task changes
\* the future of that task alone, and the accumulated list changes only when
\* the collecting thread takes one future, the future of a task that is over.
C9_NoSharedWrites ==
  [][pc = "collect" =>
       /\ \A i \in DOMAIN fut :
            fut'[i] # fut[i] =>
              /\ \A j \in DOMAIN fut : j # i => fut'[j] = fut[j]
              /\ fut'[i].st = "collected" => fut[i].st \in {"done", "raised"}
              /\ fut'[i].st # "collected" => call_results' = call_results /\ ret' = ret
       /\ call_results' # call_results =>
            \E i \in DOMAIN fut : fut[i].st = "done" /\ fut'[i].st = "collected"]_vars

\* results are accumulated while two site tasks are running
C9_Witness ==
  pc = "collect" /\ Cardinality(Running) >= 2 /\ call_results # <<>>

\* C10: once the accumulated results reach the target of the category no
\* further site is asked: the site loop does not go on to its next site and
\* no submitted task is still to be started.
C10_EarlyStop ==
  ValidCall /\ Len(call_results) >= Target(stype) =>
    /\ pc # "loop"
    /\ ~(pc = "collect" /\ \E i \in DOMAIN fut : fut[i].st = "pending")

\* C11: a search whose query is empty or holds white space only returns the
\* empty list in every category, and it runs no site task, sends no engine
\* query and leaves the configuration as it is.
C11_BlankQueryReturnsEmpty ==
  [][pc = "idle" /\ pc' # "idle" /\ Strip(call_query') = <<>> =>
       /\ pc' = "done" /\ ret' = <<>>
       /\ fut' = <<>> /\ queried' = <<>> /\ ~engine_queried'
       /\ config' = config]_vars

\* a search of each of the four categories for a white-space query has returned
C11_Witness ==
  /\ pc = "done" /\ stype \in {"web", "images", "videos", "resources"}
  /\ call_query # <<>> /\ Strip(call_query) = <<>>

\* the site was last switched off for the type of the call and not on again
SwitchedOff(domain) ==
  \E k \in 1..Len(toggled) :
    /\ toggled[k] = [domain |-> domain, kind |-> stype, enabled |-> FALSE]
    /\ \A m \in (k + 1)..Len(toggled) :
         ~(toggled[m].domain = domain /\ toggled[m].kind = stype)

\* C12: after toggle_site_enabled(domain, site_type, False) every search of
\* that type leaves the domain out, in whichever category of the type it is
\* listed, until it is switched on again: no task is run for it.
C12_DisabledSiteExcluded ==
  \A k \in 1..Len(queried) : ~SwitchedOff(queried[k].domain)


\* the functions that extract result records from a page
ParseFns ==
  {"_parse_search_results", "_parse_web_site_results", "video_parse_search_results",
   "_parse_bing_images_simple"}

\* the host of url contains a domain of the blacklist
HostBlacklisted(url) ==
  \E k \in 1..Len(config.blacklist.domains) :
    Contains(Lower(urlparse(url).netloc), config.blacklist.domains[k])

\* C13: while the blacklist is enabled, no result extracted from any page (engine
\* page or direct-site page, any category) has a URL whose host contains a
\* blacklisted domain
C13_NoBlacklistedHost ==
  probe.fn \in ParseFns /\ config.blacklist.enabled =>
    \A k \in 1..Len(probe.out) : ~HostBlacklisted(probe.out[k].url)


\* C14: no result extracted from a page of Bing, in any category, is a link into
\* Bing's own search, image, video, map or dictionary pages
C14_NoEngineInternal ==
  probe.fn \in ParseFns /\ probe.arg.source = T("bing") =>
    \A k \in 1..Len(probe.out) : ~_is_bing_internal(probe.out[k].url)


\* a link whose path and query begin /link?url=
BaiduRedirect(url) ==
  urlparse(url).path = T("/link") /\ StartsWith(urlparse(url).query, T("url="))

\* C15: no result extracted from a Baidu result page is a Baidu redirect link
\* (path beginning /link?url=, relative or absolute)
C15_NoBaiduRedirect ==
  probe.fn = "_parse_search_results" /\ probe.arg.source = T("baidu") =>
    \A k \in 1..Len(probe.out) : ~BaiduRedirect(probe.out[k].url)


\* an absolute URL with scheme http or https and a host
AbsoluteHttp(url) ==
  urlparse(url).scheme \in {T("http"), T("https")} /\ urlparse(url).netloc # <<>>

\* C16: every url of every result of the engine extraction and of the generic-site
\* extraction is an absolute http or https URL
C16_AbsoluteHttpUrl ==
  probe.fn \in {"_parse_search_results", "_parse_web_site_results"} =>
    \A k \in 1..Len(probe.out) : AbsoluteHttp(probe.out[k].url)


\* an href that is empty, a fragment, or begins with a scheme that is no link
Unusable(href) ==
  \/ href = <<>>
  \/ StartsWith(href, T("#"))
  \/ \E s \in {T("javascript:"), T("mailto:"), T("tel:"), T("data:"), T("about:"),
               T("chrome:"), T("file:")} : StartsWith(Lower(href), s)

\* C17: _normalize_url answers None for every unusable href and no extraction emits
\* it; a protocol-relative href //host/rest becomes https://host/rest in
\* _normalize_url, in the engine extraction and in the generic-site extraction
C17_NormalizeLinks ==
  /\ probe.fn = "_normalize_url" /\ Unusable(probe.arg) => probe.out = None
  /\ probe.fn \in {"_parse_search_results", "_parse_web_site_results"}
       /\ Unusable(probe.arg.href) => probe.out = <<>>
  /\ probe.fn = "_normalize_url" /\ StartsWith(probe.arg, T("//"))
       => probe.out = T("https:") \o probe.arg
  /\ probe.fn \in {"_parse_search_results", "_parse_web_site_results"}
       /\ StartsWith(probe.arg.href, T("//"))
       => \A k \in 1..Len(probe.out) : probe.out[k].url = T("https:") \o probe.arg.href


\* C18: a root-relative href of a page of engine E becomes a URL on the host of E
C18_RootRelativeOnEngineHost ==
  probe.fn = "_parse_search_results"
    /\ StartsWith(probe.arg.href, T("/")) /\ ~StartsWith(probe.arg.href, T("//"))
    => \A k \in 1..Len(probe.out) :
         Contains(urlparse(probe.out[k].url).netloc, probe.arg.source \o T(".com"))


\* the character of a 6-bit value in the URL-safe base64 alphabet
B64Char(v) == IF v = 62 THEN "-" ELSE IF v = 63 THEN "_" ELSE B64Alphabet[v + 1]

\* the code of a printable ASCII character
Code(c) == 31 + CHOOSE i \in 1..Len(Ascii) : Ascii[i] = c

\* base64.urlsafe_b64encode of an ASCII text, with the padding removed
RECURSIVE B64Encode(_)
B64Encode(text) ==
  IF text = <<>> THEN <<>>
  ELSE LET b1 == Code(text[1])
           b2 == IF Len(text) > 1 THEN Code(text[2]) ELSE 0
           b3 == IF Len(text) > 2 THEN Code(text[3]) ELSE 0
           c1 == B64Char(b1 \div 4)
           c2 == B64Char((b1 % 4) * 16 + b2 \div 16)
           c3 == B64Char((b2 % 16) * 4 + b3 \div 64)
           c4 == B64Char(b3 % 64)
       IN IF Len(text) = 1 THEN <<c1, c2>>
          ELSE IF Len(text) = 2 THEN <<c1, c2, c3>>
          ELSE <<c1, c2, c3, c4>> \o B64Encode(SubSeq(text, 4, Len(text)))

\* the redirect targets and the values of u that are no encoded target
UnwrapTargets == {T("http://t.cn/1"), T("https://e.cn/ab"), T("http://e.cn"), T("http")}
BadU ==
  {T("a"), T("a1a"), T("Zm9v"), T("a1Zm9v"), T("!!!!"), <<>>, T("aHR0c"), T("a1"),
   T("_w"), T("a1_w")}

\* a bing.com URL whose u parameter is enc
Wrapped(enc) == T("https://www.bing.com/ck/a?u=") \o enc

\* C19: _unwrap_bing_url of a bing.com URL whose u is the unpadded base64url of a
\* target t starting with http, with or without the a1 prefix, is t; with a u
\* that does not decode, or decodes to a text not starting with http, it is the
\* input URL; every call returns the input or a text starting with http
C19_UnwrapRoundTrip ==
  probe.fn = "_unwrap_bing_url" =>
    /\ \A t \in UnwrapTargets : \A p \in {<<>>, T("a1")} :
         probe.arg = Wrapped(p \o B64Encode(t)) => probe.out = t
    /\ \A u \in BadU : probe.arg = Wrapped(u) => probe.out = probe.arg
    /\ probe.out = probe.arg \/ StartsWith(probe.out, T("http"))

\* a URL whose u carries the a1 prefix was unwrapped to its target
C19_Witness ==
  /\ probe.fn = "_unwrap_bing_url"
  /\ probe.arg = Wrapped(T("a1") \o B64Encode(T("https://e.cn/ab")))
  /\ probe.out = T("https://e.cn/ab")


\* the number of characters other than the space that two texts share
CommonChars(a, b) == Cardinality((Chars(a) \cap Chars(b)) \ {" "})

\* the text contains an official or definitional marker
Marker(text) == \E k \in 1..Len(official_keywords) : Contains(text, official_keywords[k])

\* base 1, 50 for every shared character of the normalized query and title, 1000
\* for the normalized query inside the normalized title, 20 for a marker
ScoreOf(title, url, query) ==
  1 + 50 * CommonChars(_normalize_text(query), _normalize_text(title))
    + (IF Contains(_normalize_text(title), _normalize_text(query)) THEN 1000 ELSE 0)
    + (IF Marker(title) \/ Marker(url) THEN 20 ELSE 0)

\* _calculate_relevance_score was called with a title and a query that are not empty
Scored ==
  /\ probe.fn = "_calculate_relevance_score"
  /\ probe.arg.title # <<>>
  /\ probe.arg.query # <<>>

\* C20: for a non-empty title and query the score is 1 + 50 x the number of
\* non-space characters common to the normalized query and title + 1000 if the
\* normalized query is inside the normalized title + 20 if the title or the URL
\* contains a marker, all three texts taken in lower case; it is at least 1
C20_ScoreFormula ==
  Scored =>
    /\ probe.out = ScoreOf(Lower(probe.arg.title), Lower(probe.arg.url), Lower(probe.arg.query))
    /\ probe.out >= 1

\* a title in capitals and a URL with a capitalized marker got all three additions
C20_Witness ==
  /\ Scored
  /\ probe.arg = [title |-> T("AB x1"), url |-> T("http://e.cn/Wiki/1"), query |-> T("ab")]
  /\ probe.out = 1121

\* C20 as stated, the texts normalized as _normalize_text does and no more: the
\* score is the same sum over the title, URL and query as they were given
C20_ScoreFormulaAsGiven ==
  Scored => probe.out = ScoreOf(probe.arg.title, probe.arg.url, probe.arg.query)


\* the normalized title of the result contains the normalized query, both taken
\* as the scorer takes them
HasQuery(title, query) ==
  Contains(_normalize_text(Lower(title)), _normalize_text(Lower(query)))

HasVideoPath(url) == \E k \in 1..Len(video_paths) : Contains(url, video_paths[k])

\* the text in front of the first '?' of a URL that has one
BeforeParam(url) == SubSeq(url, 1, Find(url, T("?")) - 1)

\* the '?' of the URL directly follows 'search' or a video path
ParamAfterSuffix(url) ==
  /\ Contains(url, T("?"))
  /\ \/ EndsWith(Lower(BeforeParam(url)), T("search"))
     \/ \E k \in 1..Len(video_paths) : EndsWith(Lower(BeforeParam(url)), Tail(video_paths[k]))

\* C22: the structural test of the Video category passes every URL with a video
\* path segment and no query string, fails every URL whose '?' directly follows
\* 'search' or a video path, and fails every URL without a video path segment
C22_VideoStructuralTest ==
  probe.fn = "_is_video_content" =>
    /\ HasVideoPath(probe.arg.url) /\ ~Contains(probe.arg.url, T("?")) => probe.out
    /\ ParamAfterSuffix(probe.arg.url) => ~probe.out
    /\ ~HasVideoPath(probe.arg.url) => ~probe.out


\* the query parameters of a URL without every utm_* parameter and ref, source, from
Untracked(url) ==
  LET qs == parse_qs(urlparse(url).query)
  IN [n \in {k \in DOMAIN qs : ~StartsWith(k, T("utm_"))
                                /\ k \notin {T("ref"), T("source"), T("from")}} |-> qs[n]]

\* same host, same path and the same parameters once the tracking ones are removed
SimilarUrls(url1, url2) ==
  /\ urlparse(url1).netloc = urlparse(url2).netloc
  /\ urlparse(url1).path = urlparse(url2).path
  /\ Untracked(url1) = Untracked(url2)

\* the character set of the normalized title of a result
TitleChars(item) == Chars(_normalize_text(Lower(Strip(item.title))))

\* Jaccard similarity of the normalized character sets above 0.8
SimilarTitles(item1, item2) ==
  /\ TitleChars(item1) \cup TitleChars(item2) # {}
  /\ 10 * Cardinality(TitleChars(item1) \cap TitleChars(item2))
       > 8 * Cardinality(TitleChars(item1) \cup TitleChars(item2))

\* C23: after _smart_deduplication no two surviving results have similar URLs
\* and no two have similar titles
C23_NoSimilarSurvivors ==
  probe.fn = "merge" =>
    \A i, j \in 1..Len(probe.out.dedup) :
      i < j => /\ ~SimilarUrls(probe.out.dedup[i].url, probe.out.dedup[j].url)
               /\ ~SimilarTitles(probe.out.dedup[i], probe.out.dedup[j])


\* the pixel dimensions a URL carries in w= and h=
Dims(url) == SizesOf(url, T("w=")) \cup SizesOf(url, T("h="))

\* C25: a resolved image URL that carries pixel dimensions is rejected exactly
\* when one of them is below the floor of 50 px; a dimension at or above the
\* floor never causes rejection
C25_SizeFloor ==
  probe.fn = "_is_valid_image" /\ Dims(probe.arg) # {} =>
    (probe.out <=> \A d \in Dims(probe.arg) : d >= MinPixels)


\* the hrefs of the items a selector matched
HrefsOf(items) == {items[i].href : i \in 1..Len(items)}

\* C24: the selector loop stops at the first selector that matches an element:
\* no later selector is evaluated and only its matches become results, even when
\* all of them are rejected; the links of the page are collected exactly when no
\* selector matched
C24_FirstSelectorWins ==
  probe.fn \in {"SelectAndParse", "_parse_baidu_results"} =>
    LET k == FirstMatch(probe.arg.matches)
    IN /\ probe.out.fallback <=> k = 0
       /\ k > 0 => /\ probe.out.evaluated = k
                   /\ \A i \in 1..Len(probe.out.results) :
                        probe.out.results[i].url \in HrefsOf(probe.arg.matches[k])

\* C26: whenever reset_config has just returned, the configuration of UnifiedSearch
\* and of the four searchers equals the DEFAULT_CONFIG literal of main.py, whatever
\* add_site, toggle_site_enabled and reset_config calls came before
C26_ResetRestoresLiteral ==
  (admin # <<>> /\ admin[Len(admin)].op = "reset_config") => config = DefaultConfig

\* a reset_config that follows an add_site made after an earlier reset_config
C26_ResetAfterSharedAdd ==
  /\ Len(admin) = 3
  /\ shared
  /\ admin[1].op = "reset_config" /\ admin[2].op = "add_site" /\ admin[3].op = "reset_config"



\* the results _smart_deduplication was called on
DedupInput == ScoreAll(probe.arg, ProbeQuery)

\* a result that survived and stood before position i of the input
EarlierSurvivors(i) ==
  {j \in 1..(i - 1) : \E k \in 1..Len(probe.out.dedup) : probe.out.dedup[k] = DedupInput[j]}

\* C27: _smart_deduplication removes a result only for cause: a result with a
\* non-empty URL that is absent from the output has an earlier surviving result
\* with the same URL, a similar URL or a similar title; a result without such a
\* match survives, also when its title normalizes to the empty string
C27_RemovedOnlyForCause ==
  probe.fn = "merge" =>
    \A i \in 1..Len(DedupInput) :
      (/\ Strip(DedupInput[i].url) # <<>>
       /\ \A k \in 1..Len(probe.out.dedup) : probe.out.dedup[k] # DedupInput[i])
      => \E j \in EarlierSurvivors(i) :
           \/ Strip(DedupInput[j].url) = Strip(DedupInput[i].url)
           \/ SimilarUrls(DedupInput[j].url, DedupInput[i].url)
           \/ _are_urls_similar(DedupInput[j].url, DedupInput[i].url)
           \/ SimilarTitles(DedupInput[j], DedupInput[i])


\* the orders in which n site tasks can complete
CompletionOrders(n) == {p \in [1..n -> 1..n] : \A i, j \in 1..n : p[i] = p[j] => i = j}

\* the entries of the ResultSet when the tasks complete in order p
EntriesInOrder(p) ==
  LET all_results == [i \in 1..Len(probe.arg) |-> probe.arg[p[i]]]
      ranked == MergeRank("web", ScoreAll(all_results, ProbeQuery), ProbeQuery)
  IN {ranked[k] : k \in 1..Len(ranked)}

\* C28: for fixed per-site results the set of entries of the ResultSet of a web
\* search is the same for every order in which the site tasks complete
C28_CompletionOrderIrrelevant ==
  probe.fn = "merge" =>
    \A p \in CompletionOrders(Len(probe.arg)) :
      EntriesInOrder(p) = {probe.out.ranked[k] : k \in 1..Len(probe.out.ranked)}


\* C29: after add_site(domain, 'resources', search_urls, category) with a
\* non-empty search_urls list, the next resource search over all categories or
\* over that category runs the direct search of domain with those search_urls
C29_AddedResourceSiteSearched ==
  (/\ Len(admin) = 1
   /\ admin[1].op = "add_site"
   /\ admin[1].site_type \in {T("files"), T("resources")}
   /\ admin[1].search_urls # <<>>
   /\ stype = "resources"
   /\ pc = "done"
   /\ ValidCall
   /\ call_category \in {"", "all", admin[1].category})
  => \E k \in 1..Len(queried) :
       /\ queried[k].domain = admin[1].domain
       /\ queried[k].search_urls = admin[1].search_urls


\* the URLs the pages before page hold
SeenBefore(page) ==
  UNION {{probe.arg.answers[p].value[i].url : i \in 1..Len(probe.arg.answers[p].value)} :
           p \in 1..page} \ {<<>>}

\* page gives no results or no URL that was not seen before
NothingNew(page) ==
  LET r == probe.arg.answers[page + 1]
  IN \/ r.value = <<>>
     \/ \A i \in 1..Len(r.value) : r.value[i].url = <<>> \/ r.value[i].url \in SeenBefore(page)

\* C30: _search_multiple_pages(query, max_pages) ends after at most max_pages
\* fetches, fetches the pages in increasing order, stops at the first page with
\* no results or no new URL, and returns a list without two entries of the same
\* URL in which every entry comes from a fetched page
C30_MultiplePagesBounded ==
  probe.fn = "_search_multiple_pages" =>
    LET fetched == probe.out.fetched
        value == probe.out.value
    IN /\ Len(fetched) <= probe.arg.max_pages
       /\ \A k \in 1..Len(fetched) : fetched[k] = k - 1
       /\ \A k \in 1..(Len(fetched) - 1) :
            ~probe.arg.answers[k].raised /\ ~NothingNew(fetched[k])
       /\ (~probe.out.raised /\ Len(fetched) < probe.arg.max_pages)
            => Len(fetched) > 0 /\ NothingNew(fetched[Len(fetched)])
       /\ \A i, j \in 1..Len(value) : value[i].url = value[j].url => i = j
       /\ \A i \in 1..Len(value) :
            \E k \in 1..Len(fetched) :
              \E n \in 1..Len(probe.arg.answers[fetched[k] + 1].value) :
                probe.arg.answers[fetched[k] + 1].value[n] = value[i]

\* two pages fetched of three allowed: the second holds results, none of them new
C30_Witness ==
  /\ probe.fn = "_search_multiple_pages"
  /\ probe.arg.max_pages = MaxPages
  /\ probe.out.fetched = <<0, 1>>
  /\ probe.arg.answers[2].value # <<>>
  /\ Len(probe.out.value) = 2

====
